---- MODULE Spec2Model ----
(***************************************************************************)
(* A state-machine model of HElib's key management and encryption core     *)
(* (src/src/FHE.cpp): RLWE sampling, key-switching matrices, the BFS       *)
(* routing table, matrix lookup, Encrypt / skEncrypt / Decrypt, key import *)
(* and the textual and binary persistence formats.                         *)
(*                                                                         *)
(* C++ vectors are modelled as TLA+ sequences: v[i] of the code is v[i+1]  *)
(* of the model.  A polynomial (DoubleCRT) is a record [ps, c]: ps is its  *)
(* set of primes and c the sequence of its phi(m) coefficients, reduced    *)
(* into 0 .. Q-1 where Q is the product of ps.                             *)
(***************************************************************************)
EXTENDS Integers, Sequences, FiniteSets, TLC

VARIABLES
  ctx,           \* the FHEcontext the key was built on
  sKeys, skSizes, pubEncrKey, keySwitching, keySwitchMap, KS_strategy,
  recryptKeyID, recryptEkey,   \* the fields of the FHESecKey object
  ctxt,          \* the ciphertext object of the caller
  plaintxt,      \* the polynomial the last Decrypt returned
  ret,           \* the last call: its name and how it ended
  pkErr,         \* the error drawn for the public encryption key
  sent           \* the plaintext and the draws of the last encryption

vars == <<ctx, sKeys, skSizes, pubEncrKey, keySwitching, keySwitchMap,
          KS_strategy, recryptKeyID, recryptEkey, ctxt, plaintxt, ret, pkErr, sent>>

(***************************************************************************)
(* Integer helpers (NTL)                                                   *)
(***************************************************************************)
RECURSIVE GCD(_, _)
GCD(a, b) ==
  IF b = 0 THEN (IF a < 0 THEN -a ELSE a)
  ELSE GCD(b, a % (IF b < 0 THEN -b ELSE b))

\* InvMod(a, n): the inverse of a modulo n (a and n coprime, 0 <= a < n)
InvMod(a, n) == CHOOSE x \in 0 .. n-1 : (a * x) % n = 1 % n

MulMod(a, b, n) == (a * b) % n

\* the sequence with the elements of f, each computed once
Tup(f) == f \o <<>>

RECURSIVE SeqSum(_)
SeqSum(s) == IF s = <<>> THEN 0 ELSE Head(s) + SeqSum(Tail(s))

RECURSIVE productOfPrimes(_)
productOfPrimes(S) ==
  IF S = {} THEN 1
  ELSE LET x == CHOOSE x \in S : TRUE IN x * productOfPrimes(S \ {x})

\* the representative of x modulo Q in the symmetric interval around 0
Balanced(x, Q) == LET y == x % Q IN IF 2 * y > Q THEN y - Q ELSE y

(***************************************************************************)
(* The cyclotomic ring Z[X]/Phi_m(X) (PAlgebra) for m a prime or a power   *)
(* of two                                                                  *)
(***************************************************************************)
RECURSIVE getPow2(_)
\* k when m = 2^k, and 0 when m is not a power of two
getPow2(m) ==
  IF m = 1 THEN 0
  ELSE IF m = 2 THEN 1
  ELSE IF m % 2 = 0 /\ getPow2(m \div 2) > 0 THEN 1 + getPow2(m \div 2)
  ELSE 0

getPhiM(m) == IF getPow2(m) > 0 THEN m \div 2 ELSE m - 1

inZmStar(k, m) == GCD(k % m, m) = 1

\* Phi_m(X), lowest coefficient first
getPhimX(m) ==
  IF getPow2(m) > 0
    THEN [i \in 1 .. (m \div 2) + 1 |-> IF i = 1 \/ i = (m \div 2) + 1 THEN 1 ELSE 0]
    ELSE [i \in 1 .. m |-> 1]

RECURSIVE RemPhimX(_, _)
\* the remainder of the integer polynomial f (lowest coefficient first)
\* modulo the monic Phi_m(X)
RemPhimX(f, m) ==
  LET phi == getPhimX(m)
      d   == Len(phi) - 1
      n   == Len(f)
  IN IF n <= d THEN Tup([i \in 1 .. d |-> IF i <= n THEN f[i] ELSE 0])
     ELSE LET lead == f[n]
              g == Tup([i \in 1 .. n-1 |->
                          IF i >= n - d THEN f[i] - lead * phi[i - (n - d) + 1]
                          ELSE f[i]])
          IN RemPhimX(g, m)

\* the product of two integer polynomials modulo Phi_m(X): the cyclic
\* convolution modulo X^m - 1, then the remainder modulo Phi_m
ZZXMulMod(a, b, m) ==
  LET n == Len(a)
      cyc == Tup([k \in 1 .. m |->
                    SeqSum(Tup([i \in 1 .. n |->
                                  LET j == ((k - i) % m) + 1
                                  IN IF j <= n THEN a[i] * b[j] ELSE 0]))])
  IN RemPhimX(cyc, m)

\* a(X^k) modulo Phi_m(X), for k a unit modulo m
ZZXAutomorph(a, k, m) ==
  LET n == Len(a)
      cyc == Tup([j \in 1 .. m |->
                    SeqSum(Tup([i \in 1 .. n |->
                                  IF ((i - 1) * k) % m = j - 1 THEN a[i] ELSE 0]))])
  IN RemPhimX(cyc, m)

RECURSIVE ZZXPower(_, _, _, _)
\* a^e modulo (Phi_m, Q), e >= 1
ZZXPower(a, e, m, Q) ==
  IF e <= 1 THEN a
  ELSE LET r == ZZXMulMod(ZZXPower(a, e - 1, m, Q), a, m)
       IN Tup([i \in 1 .. Len(r) |-> r[i] % Q])

(***************************************************************************)
(* DoubleCRT: the polynomial engine the key code calls.  An operation works *)
(* modulo the primes of its left operand; the right operand is read modulo *)
(* those primes.                                                           *)
(***************************************************************************)
Reduce(zz, Q) == Tup([i \in 1 .. Len(zz) |-> zz[i] % Q])

\* DoubleCRT(poly, context, primes)
DCRT(ps, zz) == [ps |-> ps, c |-> Reduce(zz, productOfPrimes(ps))]

\* DoubleCRT(context, primes): the zero polynomial
DCRTZero(m, ps) == [ps |-> ps, c |-> Tup([i \in 1 .. getPhiM(m) |-> 0])]

DCRTAdd(a, b) == DCRT(a.ps, [i \in 1 .. Len(a.c) |-> a.c[i] + b.c[i]])

DCRTSub(a, b) == DCRT(a.ps, [i \in 1 .. Len(a.c) |-> a.c[i] - b.c[i]])

DCRTAddZZX(a, zz) == DCRT(a.ps, [i \in 1 .. Len(a.c) |-> a.c[i] + zz[i]])

DCRTMulInt(a, k) == DCRT(a.ps, [i \in 1 .. Len(a.c) |-> a.c[i] * k])

DCRTMul(a, b, m) == DCRT(a.ps, ZZXMulMod(a.c, b.c, m))

DCRTautomorph(a, k, m) == DCRT(a.ps, ZZXAutomorph(a.c, k, m))

DCRTExp(a, e, m) == DCRT(a.ps, ZZXPower(a.c, e, m, productOfPrimes(a.ps)))

DCRTremovePrimes(a, s) == DCRT(a.ps \ s, a.c)

\* toPoly: the coefficients in the symmetric interval around 0
DCRTtoPoly(a) ==
  LET Q == productOfPrimes(a.ps) IN Tup([i \in 1 .. Len(a.c) |-> Balanced(a.c[i], Q)])

\* a[i].randomize() for the i-th draw (i = 0, 1, ...) after SetSeed(seed):
\* a fixed function of the seed and of the position of the draw
PRGdraw(seed, i, m, ps) ==
  DCRT(ps, [j \in 1 .. getPhiM(m) |-> seed * (3 * i + j + 1) + i + 2 * j])

allPrimes(c) == c.ctxtPrimes \cup c.specialPrimes

(***************************************************************************)
(* SKHandle, CtxtPart, Ctxt and KeySwitch objects                          *)
(***************************************************************************)
SKHandle(sPow, xPow, id) == [powerOfS |-> sPow, powerOfX |-> xPow, secretKeyID |-> id]

isOne(h) == h.powerOfS = 0

CtxtPart(poly, h) == [poly |-> poly, skHandle |-> h]

\* Ctxt(pubKey): no parts, the primes of the context, the key's plaintext space;
\* pubKey and context name the key object and the context the ciphertext is
\* bound to: 0 is this key (this context)
NewCtxt(c, p) ==
  [parts |-> <<>>, primeSet |-> c.ctxtPrimes, ptxtSpace |-> p, noiseVar |-> 0,
   pubKey |-> 0, context |-> 0]

\* KeySwitch(sPow, xPow, fromID, toID, p)
KeySwitch(sPow, xPow, fromID, toID, p) ==
  [fromKey |-> SKHandle(sPow, xPow, fromID), toKeyID |-> toID, ptxtSpace |-> p,
   b |-> <<>>, prgSeed |-> 0, noiseVar |-> 0]

dummy == KeySwitch(-1, -1, -1, -1, 0)

(***************************************************************************)
(* RLWE                                                                    *)
(***************************************************************************)
\* the variance of the unscaled error returned: two scales tell the two
\* apart
RLWE1VarianceOfError(c, c0, c1, s, p, e) ==
  LET stdev2 == IF getPow2(c.m) = 0 THEN c.stdev * c.stdev * c.m
                ELSE c.stdev * c.stdev
      sampled == DCRT(c0.ps, e)
      scaled == IF p > 1 THEN DCRTMulInt(sampled, p) ELSE sampled
  IN [c0 |-> DCRTSub(scaled, DCRTMul(c1, s, c.m)),
      var |-> stdev2 * (IF getPow2(c.m) > 0 THEN c.m ELSE getPhiM(c.m))]

\* c0 = e - c1*s, the error not scaled by p: a scale above 1 tells the
\* two apart
RLWE1Unscaled(c, c0, c1, s, p, e) ==
  LET stdev2 == IF getPow2(c.m) = 0 THEN c.stdev * c.stdev * c.m
                ELSE c.stdev * c.stdev
  IN [c0 |-> DCRTSub(DCRT(c0.ps, e), DCRTMul(c1, s, c.m)),
      var |-> stdev2 * p * p * (IF getPow2(c.m) > 0 THEN c.m ELSE getPhiM(c.m))]

\* c0 = p*e + c1*s, the sign of the mask wrong: the round trip of a
\* plaintext tells the two apart
RLWE1SignError(c, c0, c1, s, p, e) ==
  LET stdev2 == IF getPow2(c.m) = 0 THEN c.stdev * c.stdev * c.m
                ELSE c.stdev * c.stdev
      sampled == DCRT(c0.ps, e)
      scaled == IF p > 1 THEN DCRTMulInt(sampled, p) ELSE sampled
      tmp == DCRTMul(c1, s, c.m)
  IN [c0 |-> DCRTAdd(scaled, tmp),
      var |-> stdev2 * p * p * (IF getPow2(c.m) > 0 THEN c.m ELSE getPhiM(c.m))]

\* RLWE1(c0, c1, s, p): e is the Gaussian draw of c0.sampleGaussianBounded.
\* Returns the new c0 and the variance.  The width is an integer in the
\* model, so stdev * stdev is exact; for a non-power-of-two m the width is
\* multiplied by sqrt(m), its square by m.
RLWE1(c, c0, c1, s, p, e) ==
  LET stdev2 == IF getPow2(c.m) = 0 THEN c.stdev * c.stdev * c.m
                ELSE c.stdev * c.stdev
      sampled == DCRT(c0.ps, e)
      scaled == IF p > 1 THEN DCRTMulInt(sampled, p) ELSE sampled
      tmp == DCRTMul(c1, s, c.m)
  IN [c0 |-> DCRTSub(scaled, tmp),
      var |-> stdev2 * p * p * (IF getPow2(c.m) > 0 THEN c.m ELSE getPhiM(c.m))]

\* RLWE(c0, c1, s, p, prgSeed): draw is the polynomial c1.randomize() yields
RLWE(c, c0, c1, s, p, draw, e) ==
  LET rc1 == DCRT(c1.ps, draw)
      r == RLWE1(c, c0, rc1, s, p, e)
  IN [c0 |-> r.c0, c1 |-> rc1, var |-> r.var]

(***************************************************************************)
(* The key object: FHEPubKey's and FHESecKey's fields                      *)
(***************************************************************************)
Key == [sKeys |-> sKeys, skSizes |-> skSizes, pubEncrKey |-> pubEncrKey,
        keySwitching |-> keySwitching, keySwitchMap |-> keySwitchMap,
        KS_strategy |-> KS_strategy, recryptKeyID |-> recryptKeyID,
        recryptEkey |-> recryptEkey]

\* the outcome of a call: the key object after it, how it ended ("ok", or
\* the failure that ended it) and the value it returned
Outcome(K, out, val) == [key |-> K, out |-> out, val |-> val]

(***************************************************************************)
(* The routing table                                                       *)
(***************************************************************************)
\* the edges of setKeySwitchMap: <<fromXPower, matrix index>> for every
\* matrix W[s_keyId(X^n) => s_keyId(X)], in registry order
RECURSIVE keySwitchingEdgesAnyPower(_, _, _)
\* edges that would also take the matrices from a power of the key,
\* W[s_keyId^r(X^n) => s_keyId(X)]: routing correctness tells the two apart
keySwitchingEdgesAnyPower(mats, keyId, i) ==
  IF i >= Len(mats) THEN <<>>
  ELSE LET mat == mats[i + 1]
           rest == keySwitchingEdgesAnyPower(mats, keyId, i + 1)
       IN IF mat.toKeyID = keyId /\ mat.fromKey.secretKeyID = keyId
            THEN <<<<mat.fromKey.powerOfX, i>>>> \o rest
            ELSE rest

RECURSIVE keySwitchingEdgesAnyTarget(_, _, _)
\* the edges without the test of the target key: a matrix from keyId to
\* another key tells the two apart
keySwitchingEdgesAnyTarget(mats, keyId, i) ==
  IF i >= Len(mats) THEN <<>>
  ELSE LET mat == mats[i + 1]
           rest == keySwitchingEdgesAnyTarget(mats, keyId, i + 1)
       IN IF mat.fromKey.powerOfS = 1 /\ mat.fromKey.secretKeyID = keyId
            THEN <<<<mat.fromKey.powerOfX, i>>>> \o rest
            ELSE rest

RECURSIVE keySwitchingEdges(_, _, _)
keySwitchingEdges(mats, keyId, i) ==
  IF i >= Len(mats) THEN <<>>
  ELSE LET mat == mats[i + 1]
           rest == keySwitchingEdges(mats, keyId, i + 1)
       IN IF mat.toKeyID = keyId /\ mat.fromKey.powerOfS = 1
                                 /\ mat.fromKey.secretKeyID = keyId
            THEN <<<<mat.fromKey.powerOfX, i>>>> \o rest
            ELSE rest

RECURSIVE bfsEdgesOverwriting(_, _, _, _, _)
\* an entry already recorded replaced by the edge found later: a power
\* reached over two routes of different length tells the two apart
bfsEdgesOverwriting(st, edges, currentNode, j, m) ==
  IF j > Len(edges) THEN st
  ELSE LET n == edges[j][1]
           matrixIndex == edges[j][2]
           nextNode == MulMod(currentNode, n, m)
           marked1 == [st.map EXCEPT ![nextNode + 1] = matrixIndex]
       IN IF st.map[nextNode + 1] = -1
            THEN bfsEdgesOverwriting([map |-> marked1, queue |-> Append(st.queue, nextNode)],
                                     edges, currentNode, j + 1, m)
            ELSE bfsEdgesOverwriting([map |-> marked1, queue |-> st.queue],
                                     edges, currentNode, j + 1, m)

RECURSIVE bfsEdges(_, _, _, _, _)
\* the inner loop of the BFS: go over the edges from index j on
bfsEdges(st, edges, currentNode, j, m) ==
  IF j > Len(edges) THEN st
  ELSE LET n == edges[j][1]
           matrixIndex == edges[j][2]
           nextNode == MulMod(currentNode, n, m)
       IN IF st.map[nextNode + 1] = -1
            THEN bfsEdges([map |-> [st.map EXCEPT ![nextNode + 1] = matrixIndex],
                           queue |-> Append(st.queue, nextNode)],
                          edges, currentNode, j + 1, m)
            ELSE bfsEdges(st, edges, currentNode, j + 1, m)

RECURSIVE bfsLoop(_, _, _)
\* the outer loop of the BFS: until the queue is empty
bfsLoop(st, edges, m) ==
  IF st.queue = <<>> THEN st.map
  ELSE LET after == bfsEdges(st, edges, Head(st.queue), 1, m)
       IN bfsLoop([map |-> after.map, queue |-> Tail(after.queue)], edges, m)

\* a table patched instead of rebuilt: the search starts from the entries
\* the table of keyId already holds
setKeySwitchMapPatched(c, K, keyId) ==
  IF ~(keyId >= 0 /\ keyId < Len(K.skSizes)) THEN Outcome(K, "assert", 0)
  ELSE
    LET edges == keySwitchingEdges(K.keySwitching, keyId, 0)
        resized == IF keyId >= Len(K.keySwitchMap)
                     THEN Tup([i \in 1 .. keyId + 1 |->
                                 IF i <= Len(K.keySwitchMap) THEN K.keySwitchMap[i]
                                 ELSE <<>>])
                     ELSE K.keySwitchMap
        start == IF Len(resized[keyId + 1]) = c.m THEN resized[keyId + 1]
                 ELSE Tup([i \in 1 .. c.m |-> -1])
        table == bfsLoop([map |-> start, queue |-> <<1>>], edges, c.m)
    IN Outcome([K EXCEPT !.keySwitchMap = [resized EXCEPT ![keyId + 1] = table]], "ok", 0)

\* FHEPubKey::setKeySwitchMap(keyId)
setKeySwitchMap(c, K, keyId) ==
  IF ~(keyId >= 0 /\ keyId < Len(K.skSizes)) THEN Outcome(K, "assert", 0)
  ELSE
    LET edges == keySwitchingEdges(K.keySwitching, keyId, 0)
        resized == IF keyId >= Len(K.keySwitchMap)
                     THEN Tup([i \in 1 .. keyId + 1 |->
                                 IF i <= Len(K.keySwitchMap) THEN K.keySwitchMap[i]
                                 ELSE <<>>])
                     ELSE K.keySwitchMap
        empty == Tup([i \in 1 .. c.m |-> -1])
        table == bfsLoop([map |-> empty, queue |-> <<1>>], edges, c.m)
    IN Outcome([K EXCEPT !.keySwitchMap = [resized EXCEPT ![keyId + 1] = table]], "ok", 0)

(***************************************************************************)
(* Matrix lookup                                                           *)
(***************************************************************************)
RECURSIVE linearSearch(_, _, _, _, _)
\* the index of the first matrix from index i on with that fromKey (and,
\* when anyTo is FALSE, that toKeyID), or -1: the dummy
linearSearch(mats, from, toIdx, anyTo, i) ==
  IF i >= Len(mats) THEN -1
  ELSE IF (anyTo \/ mats[i + 1].toKeyID = toIdx) /\ mats[i + 1].fromKey = from THEN i
  ELSE linearSearch(mats, from, toIdx, anyTo, i + 1)

\* keySwitchMap.at(id).at(x) and keySwitching.at(matIdx): "out_of_range" when
\* an index is outside its vector, else the index of the matrix to return if
\* the table gives one whose fromKey is `from`, else -2 (go on to the scan)
routingLookup(K, from, id) ==
  IF id < 0 \/ id >= Len(K.keySwitchMap) THEN Outcome(K, "out_of_range", -1)
  ELSE IF from.powerOfX < 0 \/ from.powerOfX >= Len(K.keySwitchMap[id + 1])
    THEN Outcome(K, "out_of_range", -1)
  ELSE LET matIdx == K.keySwitchMap[id + 1][from.powerOfX + 1]
       IN IF matIdx < 0 THEN Outcome(K, "ok", -2)
          ELSE IF matIdx >= Len(K.keySwitching) THEN Outcome(K, "out_of_range", -1)
          ELSE IF K.keySwitching[matIdx + 1].fromKey = from THEN Outcome(K, "ok", matIdx)
          ELSE Outcome(K, "ok", -2)

\* a lookup that would trust the routing table alone, without the linear
\* search after a miss: idempotence of the generation tells the two apart
getKeySWmatrixMapOnly(K, from, toIdx) ==
  LET viaMap == IF from.powerOfS = 1 /\ from.secretKeyID = toIdx
                                     /\ toIdx < Len(K.keySwitchMap)
                  THEN routingLookup(K, from, toIdx)
                  ELSE Outcome(K, "ok", -2)
  IN IF viaMap.out # "ok" \/ viaMap.val >= 0 THEN viaMap
     ELSE Outcome(K, "ok", -1)

\* FHEPubKey::getKeySWmatrix(from, toIdx): val is the index in the registry
\* of the matrix returned, -1 for the dummy
getKeySWmatrix(K, from, toIdx) ==
  LET viaMap == IF from.powerOfS = 1 /\ from.secretKeyID = toIdx
                                     /\ toIdx < Len(K.keySwitchMap)
                  THEN routingLookup(K, from, toIdx)
                  ELSE Outcome(K, "ok", -2)
  IN IF viaMap.out # "ok" \/ viaMap.val >= 0 THEN viaMap
     ELSE Outcome(K, "ok", linearSearch(K.keySwitching, from, toIdx, FALSE, 0))

\* FHEPubKey::getAnyKeySWmatrix(from)
getAnyKeySWmatrix(K, from) ==
  LET viaMap == IF from.powerOfS = 1 /\ from.secretKeyID < Len(K.keySwitchMap)
                  THEN routingLookup(K, from, from.secretKeyID)
                  ELSE Outcome(K, "ok", -2)
  IN IF viaMap.out # "ok" \/ viaMap.val >= 0 THEN viaMap
     ELSE Outcome(K, "ok", linearSearch(K.keySwitching, from, 0, TRUE, 0))

\* the matrix a lookup returned
matrixAt(K, idx) == IF idx < 0 THEN dummy ELSE K.keySwitching[idx + 1]

\* FHEPubKey::haveKeySWmatrix(fromSPower, fromXPower, fromID, toID)
haveKeySWmatrix(K, fromSPower, fromXPower, fromID, toID) ==
  LET isDummy(r) == IF r.out # "ok" THEN r
                     ELSE Outcome(K, "ok", IF matrixAt(K, r.val).toKeyID >= 0 THEN 1 ELSE 0)
  IN isDummy(getKeySWmatrix(K, SKHandle(fromSPower, fromXPower, fromID), toID))

(***************************************************************************)
(* Key-switching matrix generation                                          *)
(***************************************************************************)
\* sanity checks that would let the powers 0 through: the no-op property of
\* the degenerate requests tells the two apart
degenerateNegative(fromSPower, fromXPower, fromIdx, toIdx) ==
  \/ fromSPower < 0 \/ fromXPower < 0
  \/ (fromSPower = 1 /\ fromXPower = 1 /\ fromIdx = toIdx)

\* sanity checks that would let the identity switch through: a matrix
\* from a key to itself tells the two apart
degenerateSigns(fromSPower, fromXPower, fromIdx, toIdx) ==
  fromSPower <= 0 \/ fromXPower <= 0

\* the sanity checks of GenKeySWmatrix: a request that is a no-op
degenerate(fromSPower, fromXPower, fromIdx, toIdx) ==
  \/ fromSPower <= 0 \/ fromXPower <= 0
  \/ (fromSPower = 1 /\ fromXPower = 1 /\ fromIdx = toIdx)

\* a matrix with one digit whatever the context: the digit-count invariant
\* tells the two apart
digitCountOne(c) == 1

\* long n = context.digits.size()
digitCount(c) == Len(c.digits)

\* fromKey taken as a reference into sKeys: the stored key would end as the
\* automorphed, raised and scaled polynomial
sKeysAfterGenByReference(K, fromIdx, fromKey) == [K.sKeys EXCEPT ![fromIdx + 1] = fromKey]

\* DoubleCRT fromKey = sKeys.at(fromIdx) is a copy: the automorphism, the
\* exponentiation and the scaling change fromKey, the stored keys stay
sKeysAfterGen(K, fromIdx, fromKey) == K.sKeys

\* an unspecified p always resolved to the space of the public encryption
\* key: a bootstrappable context tells the two apart
matrixPtxtSpaceKeyDefault(c, K, p) ==
  IF c.ckks THEN 1
  ELSE IF p < 2 THEN K.pubEncrKey.ptxtSpace
  ELSE p

\* the plaintext space recorded in the matrix
matrixPtxtSpace(c, K, p) ==
  IF c.ckks THEN 1
  ELSE IF p < 2
    THEN (IF c.bootstrappable THEN c.rcPPowR ELSE K.pubEncrKey.ptxtSpace)
  ELSE p

\* the table of toIdx rebuilt over the registry with the new matrix: a
\* matrix appended after the table was built tells the two apart
keySwitchMapAfterGenRebuilt(c, K, registry, toIdx) ==
  setKeySwitchMap(c, [K EXCEPT !.keySwitching = registry], toIdx).key.keySwitchMap

\* keySwitching.push_back(ksMatrix) is the last statement of
\* GenKeySWmatrix: the routing table is not rebuilt
keySwitchMapAfterGen(c, K, registry, toIdx) == K.keySwitchMap

RECURSIVE addFromKeySameFactor(_, _, _, _)
\* every digit given the same multiple of fromKey: the second digit of a
\* matrix tells the two apart
addFromKeySameFactor(c, b, fromKey, i) ==
  IF i >= Len(b) THEN [b |-> b, fromKey |-> fromKey]
  ELSE addFromKeySameFactor(c, [b EXCEPT ![i + 1] = DCRTAdd(b[i + 1], fromKey)],
                            fromKey, i + 1)

RECURSIVE addFromKey(_, _, _, _)
\* ksMatrix.b[i] += fromKey; fromKey *= product of digit i, from index i on;
\* returns the digits and the last value of fromKey
addFromKey(c, b, fromKey, i) ==
  IF i >= Len(b) THEN [b |-> b, fromKey |-> fromKey]
  ELSE addFromKey(c, [b EXCEPT ![i + 1] = DCRTAdd(b[i + 1], fromKey)],
                  DCRTMulInt(fromKey, productOfPrimes(c.digits[i + 1])), i + 1)

\* FHESecKey::GenKeySWmatrix(fromSPower, fromXPower, fromIdx, toIdx, p).
\* rnd.seed is the value RandomBits gives, rnd.errs[i+1] the Gaussian draw
\* of the i-th RLWE1 call.
GenKeySWmatrix(c, K, fromSPower, fromXPower, fromIdx, toIdx, p, rnd) ==
  LET n == digitCount(c)
      pp == matrixPtxtSpace(c, K, p)
      \* the matrix is completed from the RLWE instances and pushed
      push(rlwe, added) ==
        LET ksMatrix == [KeySwitch(fromSPower, fromXPower, fromIdx, toIdx, 0) EXCEPT
                           !.prgSeed = rnd.seed, !.ptxtSpace = pp, !.b = added.b,
                           !.noiseVar = IF n > 0 THEN rlwe[n].var ELSE 0]
        IN Outcome([K EXCEPT !.sKeys = sKeysAfterGen(K, fromIdx, added.fromKey),
                             !.keySwitching = Append(K.keySwitching, ksMatrix),
                             !.keySwitchMap =
                                keySwitchMapAfterGen(c, K, Append(K.keySwitching, ksMatrix),
                                                     toIdx)],
                   "ok", 0)
      \* the digits get the scaled source key added
      fill(rlwe, scaledKey) ==
        push(rlwe, addFromKey(c, [i \in 1 .. n |-> rlwe[i].c0], scaledKey, 0))
      \* one RLWE instance per digit under the target key
      generate(fromKey, toKey) ==
        fill(Tup([i \in 1 .. n |->
                    RLWE1(c, DCRTZero(c.m, allPrimes(c)),
                          PRGdraw(rnd.seed, i - 1, c.m, allPrimes(c)),
                          toKey, pp, rnd.errs[i])]),
             DCRTMulInt(fromKey, productOfPrimes(c.specialPrimes)))
      raised(fromKey) == IF fromSPower > 1 THEN DCRTExp(fromKey, fromSPower, c.m)
                         ELSE fromKey
      rotated(fromKey) == IF fromXPower > 1 THEN DCRTautomorph(fromKey, fromXPower, c.m)
                          ELSE fromKey
      afterCheck(have) ==
        IF have.out # "ok" THEN Outcome(K, have.out, 0)
        ELSE IF have.val = 1 THEN Outcome(K, "ok", 0)
        ELSE IF fromIdx < 0 \/ fromIdx >= Len(K.sKeys) THEN Outcome(K, "out_of_range", 0)
        ELSE IF toIdx < 0 \/ toIdx >= Len(K.sKeys) THEN Outcome(K, "out_of_range", 0)
        ELSE IF ~c.ckks /\ pp < 2 THEN Outcome(K, "assert", 0)
        ELSE generate(raised(rotated(K.sKeys[fromIdx + 1])), K.sKeys[toIdx + 1])
  IN IF degenerate(fromSPower, fromXPower, fromIdx, toIdx) THEN Outcome(K, "ok", 0)
     ELSE afterCheck(haveKeySWmatrix(K, fromSPower, fromXPower, fromIdx, toIdx))

(***************************************************************************)
(* Key import                                                              *)
(***************************************************************************)
RECURSIVE importMatrices(_, _, _, _, _, _)
\* for (e = 2; e <= maxDegKswitch; e++) GenKeySWmatrix(e, 1, keyID, keyID):
\* stops at the first call that fails
importMatrices(c, K, keyID, e, maxDegKswitch, rnd) ==
  IF e > maxDegKswitch THEN Outcome(K, "ok", keyID)
  ELSE LET rest(g) == IF g.out # "ok" THEN Outcome(g.key, g.out, keyID)
                       ELSE importMatrices(c, g.key, keyID, e + 1, maxDegKswitch, rnd)
       IN rest(GenKeySWmatrix(c, K, e, 1, keyID, keyID, 0, rnd))

\* a public encryption key derived by every import: a second import
\* tells the two apart
derivesPubKeyAlways(K) == TRUE

\* if (sKeys.empty()): the first secret key generates the public key
derivesPubKey(K) == K.sKeys = <<>>

\* FHESecKey::ImportSecKey(sKey, size, ptxtSpace, maxDegKswitch).  rnd.c1 and
\* rnd.e are the draws of the RLWE call, rnd.gen those of the matrices.
\* (ratFactor and highWaterMark of the zero-encryption are level
\* bookkeeping of the ciphertext class and are not part of the model.)
ImportSecKey(c, K, sKey, size, ptxtSpace, maxDegKswitch, rnd) ==
  LET first == derivesPubKey(K)
      pp == IF ptxtSpace < 2 THEN (IF c.ckks THEN 1 ELSE c.pPowR) ELSE ptxtSpace
      blank == DCRTZero(c.m, c.ctxtPrimes)
      \* the public encryption key made from one RLWE instance
      pk(rlwe) == [K.pubEncrKey EXCEPT
                     !.parts = <<CtxtPart(rlwe.c0, SKHandle(0, 1, 0)),
                                 CtxtPart(rlwe.c1, SKHandle(1, 1, 0))>>,
                     !.noiseVar = rlwe.var,
                     !.primeSet = c.ctxtPrimes,
                     !.ptxtSpace = pp]
      \* the key is appended and its matrices generated
      store(K1) ==
        importMatrices(c, [K1 EXCEPT !.skSizes = Append(K1.skSizes, size),
                                     !.sKeys = Append(K1.sKeys, sKey)],
                       Len(K1.sKeys), 2, maxDegKswitch, rnd.gen)
  IN store(IF first
             THEN [K EXCEPT !.pubEncrKey = pk(RLWE(c, blank, blank, sKey, pp, rnd.c1, rnd.e))]
             ELSE K)

(***************************************************************************)
(* Encryption and decryption (integer variant)                             *)
(***************************************************************************)
\* the binding of the ciphertext not looked at: an encryption into a
\* ciphertext of another key tells the two apart
boundToAnyKey(ct) == TRUE

\* assert(this == &ctxt.pubKey)
boundToThisKey(ct) == ct.pubKey = 0

\* the requested plaintext space taken as it is: the space a mismatching
\* request ends with tells the two apart
effectivePtxtSpaceAsRequested(ptxtSpace, keySpace) == ptxtSpace

\* the plaintext space Encrypt works with: the requested one, or its GCD
\* with the space of the public encryption key when the two differ
effectivePtxtSpace(ptxtSpace, keySpace) ==
  IF ptxtSpace # keySpace THEN GCD(ptxtSpace, keySpace) ELSE ptxtSpace

\* MulMod(ptxt, QmodP, ptxtSpace) on a ZZX: coefficient by coefficient
ZZXMulModInt(zz, b, n) == Tup([i \in 1 .. Len(zz) |-> MulMod(zz[i] % n, b, n)])

\* the plaintext as it is added to the first part
scaledPtxt(c, primeSet, ptxt, ptxtSpace) ==
  IF ptxtSpace = 2 THEN ptxt
  ELSE ZZXMulModInt(ptxt, productOfPrimes(primeSet) % ptxtSpace, ptxtSpace)

\* Ctxt::operator=: the value of the other ciphertext; the public key and
\* the context a ciphertext object is bound to do not change
assignCtxt(to, from) == [from EXCEPT !.pubKey = to.pubKey, !.context = to.context]

\* FHEPubKey::Encrypt(ctxt, ptxt, ptxtSpace, highNoise) for the integer
\* variant.  rnd.r is the draw of r.sampleSmall, rnd.e[i+1] the draw of e
\* for part i (Gaussian, or uniform for part 0 of a high-noise request).
Encrypt(c, K, ct, ptxt, ptxtSpace, highNoise, rnd) ==
  IF ~boundToThisKey(ct) THEN [ctxt |-> ct, out |-> "assert", val |-> 0]
  ELSE
    LET pp == effectivePtxtSpace(ptxtSpace, K.pubEncrKey.ptxtSpace)
    IN IF pp <= 1 THEN [ctxt |-> ct, out |-> "Error", val |-> 0]
       ELSE
         LET zero == assignCtxt(ct, K.pubEncrKey)
             r == DCRT(c.ctxtPrimes, rnd.r)
             stdev2 == IF getPow2(c.m) = 0 THEN c.stdev * c.stdev * c.m
                       ELSE c.stdev * c.stdev
             noisy == [i \in 1 .. Len(zero.parts) |->
                         [zero.parts[i] EXCEPT
                            !.poly = DCRTAdd(DCRTMul(zero.parts[i].poly, r, c.m),
                                             DCRTMulInt(DCRT(c.ctxtPrimes, rnd.e[i]), pp))]]
             withPtxt == [noisy EXCEPT
                            ![1].poly = DCRTAddZZX(noisy[1].poly,
                                          scaledPtxt(c, zero.primeSet, ptxt, pp))]
             Q == productOfPrimes(c.ctxtPrimes)
             rVar == IF getPow2(c.m) = 0 THEN getPhiM(c.m) \div 2 ELSE c.m \div 2
             sVar == K.skSizes[1]
             var == IF highNoise THEN (Q * Q) \div 8
                    ELSE K.pubEncrKey.noiseVar * rVar + pp * pp * (1 + sVar * (stdev2 + 1))
         IN [ctxt |-> [zero EXCEPT !.parts = withPtxt, !.ptxtSpace = pp, !.noiseVar = var],
             out |-> "ok", val |-> pp]

\* the key worked on in place, as a reference into sKeys would be: the
\* key object after a decryption tells the two apart
sKeysAfterDecryptByReference(K, keyIdx, key) ==
  [K.sKeys EXCEPT ![keyIdx + 1] = key]

\* DoubleCRT key = sKeys.at(keyIdx) is a copy: the prime removal, the
\* automorphism, the exponentiation and the product with the part change
\* key, the stored keys stay
sKeysAfterDecrypt(K, keyIdx, key) == K.sKeys

RECURSIVE decryptParts(_, _, _, _, _)
\* the loop of Decrypt over the parts from index i on: the accumulator, or
\* the failure of sKeys.at
decryptParts(c, K, ciphertxt, acc, i) ==
  IF i >= Len(ciphertxt.parts) THEN [out |-> "ok", ptxt |-> acc, key |-> K]
  ELSE
    LET part == ciphertxt.parts[i + 1]
        keyIdx == part.skHandle.secretKeyID
    IN IF isOne(part.skHandle)
         THEN decryptParts(c, K, ciphertxt, DCRTAdd(acc, part.poly), i + 1)
       ELSE IF keyIdx < 0 \/ keyIdx >= Len(K.sKeys)
         THEN [out |-> "out_of_range", ptxt |-> acc, key |-> K]
       ELSE
         LET copy == K.sKeys[keyIdx + 1]
             key0 == DCRTremovePrimes(copy, copy.ps \ ciphertxt.primeSet)
             xPower == part.skHandle.powerOfX
             sPower == part.skHandle.powerOfS
             key1 == IF xPower > 1 THEN DCRTautomorph(key0, xPower, c.m) ELSE key0
             key2 == IF sPower > 1 THEN DCRTExp(key1, sPower, c.m) ELSE key1
             key3 == DCRTMul(key2, part.poly, c.m)
         IN decryptParts(c, [K EXCEPT !.sKeys = sKeysAfterDecrypt(K, keyIdx, key3)],
                         ciphertxt, DCRTAdd(acc, key3), i + 1)

\* the accumulator reduced modulo p without the factor Q^(-1): a plaintext
\* space above 2 tells the two apart
reducePtxtNoInverse(c, ciphertxt, f) ==
  LET p == ciphertxt.ptxtSpace
  IN IF p = 1 THEN f ELSE Tup([i \in 1 .. Len(f) |-> f[i] % p])

\* the plaintext Decrypt returns for the accumulator f in coefficient form
reducePtxt(c, ciphertxt, f) ==
  LET p == ciphertxt.ptxtSpace
      qModP == productOfPrimes(ciphertxt.primeSet) % p
      g == IF p > 2 /\ qModP # 1 THEN ZZXMulModInt(f, InvMod(qModP, p), p) ELSE f
  IN IF p = 1 THEN f ELSE Tup([i \in 1 .. Len(g) |-> g[i] % p])

\* FHESecKey::Decrypt(plaintxt, ciphertxt, f): the key object is const
Decrypt(c, K, ciphertxt) ==
  IF ciphertxt.context # 0
    THEN [out |-> "assert", plaintxt |-> <<>>, f |-> <<>>, key |-> K]
  ELSE
    LET finish(acc, f) ==
          IF acc.out # "ok"
            THEN [out |-> acc.out, plaintxt |-> <<>>, f |-> <<>>, key |-> acc.key]
          ELSE [out |-> "ok", plaintxt |-> reducePtxt(c, ciphertxt, f), f |-> f,
                key |-> acc.key]
        convert(acc) == finish(acc, DCRTtoPoly(acc.ptxt))
    IN convert(decryptParts(c, K, ciphertxt, DCRTZero(c.m, ciphertxt.primeSet), 0))

\* Ctxt::addConstant(ptxt): the plaintext, scaled like in Encrypt, is added
\* to the part that points to one
addConstant(c, ct, ptxt) ==
  [ct EXCEPT !.parts[1].poly =
     DCRTAddZZX(ct.parts[1].poly, scaledPtxt(c, ct.primeSet, ptxt, ct.ptxtSpace))]

\* FHESecKey::skEncrypt(ctxt, ptxt, ptxtSpace, skIdx) for the integer
\* variant.  rnd.c1 and rnd.e are the draws of the RLWE call.
skEncrypt(c, K, ct, ptxt, ptxtSpace, skIdx, rnd) ==
  IF ~boundToThisKey(ct) THEN [ctxt |-> ct, out |-> "assert", val |-> 0]
  ELSE
    LET pp == IF ptxtSpace < 2 THEN K.pubEncrKey.ptxtSpace ELSE ptxtSpace
        blank == DCRTZero(c.m, c.ctxtPrimes)
        ct1 == [ct EXCEPT !.ptxtSpace = pp, !.primeSet = c.ctxtPrimes,
                          !.parts = <<CtxtPart(blank, SKHandle(0, 1, 0)),
                                      CtxtPart(blank, SKHandle(1, 1, skIdx))>>]
    IN IF pp < 2 THEN [ctxt |-> ct, out |-> "assert", val |-> 0]
       ELSE IF skIdx < 0 \/ skIdx >= Len(K.sKeys)
         THEN [ctxt |-> ct1, out |-> "out_of_range", val |-> 0]
       ELSE
         LET rlwe == RLWE(c, blank, blank, K.sKeys[skIdx + 1], pp, rnd.c1, rnd.e)
             ct2 == [ct1 EXCEPT !.parts[1].poly = rlwe.c0, !.parts[2].poly = rlwe.c1,
                                !.noiseVar = rlwe.var]
         IN [ctxt |-> addConstant(c, ct2, ptxt), out |-> "ok", val |-> pp]

(***************************************************************************)
(* Bootstrapping key material                                              *)
(***************************************************************************)
\* FHESecKey::genRecryptData().  rnd.keyPoly is the draw of sampleHWt,
\* rnd.imp, rnd.gen and rnd.enc the draws of the three calls.
genRecryptData(c, K, rnd) ==
  IF K.recryptKeyID >= 0 THEN Outcome(K, "ok", K.recryptKeyID)
  ELSE IF ~c.bootstrappable THEN Outcome(K, "assert", 0)
  ELSE
    LET p2ePr == c.rcPPowR
        p2r == c.pPowR
        newSk == DCRT(allPrimes(c), rnd.keyPoly)
        \* recryptKeyID is set once the encryption of the new key is done
        finish(K2, keyID, enc) ==
          IF enc.out # "ok" THEN Outcome([K2 EXCEPT !.recryptEkey = enc.ctxt], enc.out, 0)
          ELSE Outcome([K2 EXCEPT !.recryptEkey = enc.ctxt, !.recryptKeyID = keyID],
                       "ok", keyID)
        afterGen(keyID, gen) ==
          IF gen.out # "ok" THEN Outcome(gen.key, gen.out, 0)
          ELSE finish(gen.key, keyID,
                      Encrypt(c, gen.key, gen.key.recryptEkey, rnd.keyPoly, p2ePr,
                              FALSE, rnd.enc))
        afterImport(imp) ==
          IF imp.out # "ok" THEN Outcome(imp.key, imp.out, 0)
          ELSE afterGen(imp.val,
                        GenKeySWmatrix(c, imp.key, 1, 1, 0, imp.val, p2r, rnd.gen))
    IN afterImport(ImportSecKey(c, K, newSk, c.rcSkHwt, p2r, 1, rnd.imp))

(***************************************************************************)
(* KeySwitch::verify                                                        *)
(***************************************************************************)
RECURSIVE verifyDigits(_, _, _, _, _, _)
\* the loop of verify from digit i on: the number of digits whose relation
\* is not divisible by p
verifyDigits(c, mat, FromKey, ToKey, prod, i) ==
  IF i >= Len(mat.b) THEN 0
  ELSE
    LET Q == productOfPrimes(allPrimes(c))
        A == DCRTtoPoly(PRGdraw(mat.prgSeed, i, c.m, allPrimes(c)))
        B == DCRTtoPoly(mat.b[i + 1])
        TA == ZZXMulMod(ToKey, A, c.m)
        C == Tup([j \in 1 .. Len(B) |-> Balanced(B[j] - FromKey[j] * prod + TA[j], Q)])
        bad == \E j \in 1 .. Len(C) : C[j] % mat.ptxtSpace # 0
    IN (IF bad THEN 1 ELSE 0)
       + verifyDigits(c, mat, FromKey, ToKey,
                      prod * productOfPrimes(c.digits[i + 1]), i + 1)

\* KeySwitch::verify(sk): val is the number of "not divisible by p" lines it
\* prints, -1 when the parameters are not checkable
verify(c, K, mat) ==
  LET fromIdx == mat.fromKey.secretKeyID
      toIdx == mat.toKeyID
  IN IF mat.fromKey.powerOfS # 1 \/ mat.fromKey.powerOfX # 1 \/ fromIdx = toIdx
                                 \/ Len(mat.b) = 0
       THEN Outcome(K, "ok", -1)
     ELSE IF fromIdx < 0 \/ fromIdx >= Len(K.sKeys) \/ toIdx < 0 \/ toIdx >= Len(K.sKeys)
       THEN Outcome(K, "out_of_range", 0)
     ELSE Outcome(K, "ok",
            verifyDigits(c, mat, DCRTtoPoly(K.sKeys[fromIdx + 1]),
                         DCRTtoPoly(K.sKeys[toIdx + 1]),
                         productOfPrimes(c.specialPrimes), 0))

(***************************************************************************)
(* Equality                                                                *)
(***************************************************************************)
FHE_KSS_UNKNOWN == 0

\* KeySwitch::operator==
keySwitchEq(a, b) ==
  /\ a.fromKey = b.fromKey
  /\ a.toKeyID = b.toKeyID
  /\ a.ptxtSpace = b.ptxtSpace
  /\ a.prgSeed = b.prgSeed
  /\ Len(a.b) = Len(b.b)
  /\ \A i \in 1 .. Len(a.b) : a.b[i] = b.b[i]

\* Ctxt::equalsTo(other, comparePkeys = false)
ctxtEqualsTo(a, b) ==
  /\ a.parts = b.parts /\ a.primeSet = b.primeSet
  /\ a.ptxtSpace = b.ptxtSpace /\ a.noiseVar = b.noiseVar

RECURSIVE strategyTrim(_, _)
\* while (n >= 0 && KS_strategy[n-1] == FHE_KSS_UNKNOWN) n--;
\* the values n can end with.  With n = 0 the loop reads KS_strategy[-1],
\* outside the vector: the read can yield FHE_KSS_UNKNOWN (n ends as -1),
\* another value (n ends as 0), or end the program (-2).
strategyTrim(v, n) ==
  IF n < 0 THEN {n}
  ELSE IF n = 0 THEN {-1, 0, -2}
  ELSE IF v[n] = FHE_KSS_UNKNOWN THEN strategyTrim(v, n - 1)
  ELSE {n}

\* FHEPubKey::operator== for two distinct key objects of one context: the
\* set of the outcomes it can have, "true", "false" or "crash"
pubKeyEq(A, B) ==
  IF ~ctxtEqualsTo(A.pubEncrKey, B.pubEncrKey) THEN {"false"}
  ELSE IF A.skSizes # B.skSizes THEN {"false"}
  ELSE IF Len(A.keySwitching) # Len(B.keySwitching) THEN {"true"}
  ELSE IF \E i \in 1 .. Len(A.keySwitching) :
             ~keySwitchEq(A.keySwitching[i], B.keySwitching[i]) THEN {"false"}
  ELSE IF Len(A.keySwitchMap) # Len(B.keySwitchMap) THEN {"false"}
  ELSE IF \E i \in 1 .. Len(A.keySwitchMap) : A.keySwitchMap[i] # B.keySwitchMap[i]
    THEN {"false"}
  ELSE
    { IF n = -2 \/ n1 = -2 THEN "crash"
      ELSE IF n # n1 THEN "false"
      ELSE IF \E i \in 1 .. n : A.KS_strategy[i] # B.KS_strategy[i] THEN "false"
      ELSE IF A.recryptKeyID # B.recryptKeyID THEN "false"
      ELSE IF A.recryptKeyID >= 0 /\ ~ctxtEqualsTo(A.recryptEkey, B.recryptEkey)
        THEN "false"
      ELSE "true" :
      n \in strategyTrim(A.KS_strategy, Len(A.KS_strategy)),
      n1 \in strategyTrim(B.KS_strategy, Len(B.KS_strategy)) }

\* FHESecKey::operator== for two distinct key objects
secKeyEq(A, B) ==
  { IF o # "true" THEN o
    ELSE IF A.sKeys # B.sKeys THEN "false"
    ELSE "true" : o \in pubKeyEq(A, B) }

(***************************************************************************)
(* The textual and the binary format.  A stream is the sequence of the     *)
(* values written, in the order they are written; ciphertexts and          *)
(* polynomials are written and read by their own classes.                  *)
(***************************************************************************)
\* the key object after construction: FHESecKey(context)
BlankKey(c) ==
  [sKeys |-> <<>>, skSizes |-> <<>>, pubEncrKey |-> NewCtxt(c, 0),
   keySwitching |-> <<>>, keySwitchMap |-> <<>>, KS_strategy |-> <<>>,
   recryptKeyID |-> -1, recryptEkey |-> NewCtxt(c, 0)]

contextBase(c) == <<c.m, c.p, c.r>>

\* operator<<(ostream&, const KeySwitch&)
writeMatrixText(matrix) ==
  <<matrix.fromKey, matrix.toKeyID, matrix.ptxtSpace, Len(matrix.b)>>
    \o matrix.b \o <<matrix.prgSeed, matrix.noiseVar>>

\* KeySwitch::readMatrix
readMatrix(str) ==
  LET nDigits == str[4]
  IN [fromKey |-> str[1], toKeyID |-> str[2], ptxtSpace |-> str[3],
      b |-> Tup([i \in 1 .. nDigits |-> str[4 + i]]),
      prgSeed |-> str[5 + nDigits], noiseVar |-> str[6 + nDigits]]

\* KeySwitch::write
writeMatrixBinary(matrix) ==
  <<"SKM_BEGIN", matrix.fromKey, matrix.toKeyID, matrix.ptxtSpace, Len(matrix.b)>>
    \o matrix.b \o <<matrix.prgSeed, matrix.noiseVar, "SKM_END">>

\* KeySwitch::read
readMatrixBinary(str) ==
  LET n == str[5]
  IN [fromKey |-> str[2], toKeyID |-> str[3], ptxtSpace |-> str[4],
      b |-> Tup([i \in 1 .. n |-> str[5 + i]]),
      prgSeed |-> str[6 + n], noiseVar |-> str[7 + n]]

\* operator<<(ostream&, const FHEPubKey&)
writePubKeyText(c, pk) ==
  <<contextBase(c), pk.pubEncrKey, pk.skSizes, Len(pk.keySwitching),
    Tup([i \in 1 .. Len(pk.keySwitching) |-> writeMatrixText(pk.keySwitching[i])]),
    pk.keySwitchMap, pk.KS_strategy, pk.recryptKeyID>>
    \o (IF pk.recryptKeyID >= 0 THEN <<pk.recryptEkey>> ELSE <<>>)

RECURSIVE rebuildMaps(_, _, _)
\* for (i = skSizes.size()-1; i >= 0; i--) pk.setKeySwitchMap(i)
rebuildMaps(c, K, i) ==
  IF i < 0 THEN K ELSE rebuildMaps(c, setKeySwitchMap(c, K, i).key, i - 1)

\* operator>>(istream&, FHEPubKey&): pk is the object read into.  clear()
\* empties it (the strategy vector is read over in any case).
readPubKeyText(c, pk, str) ==
  LET cleared == [BlankKey(c) EXCEPT !.sKeys = pk.sKeys]
      nMatrices == str[4]
      K1 == [cleared EXCEPT
               !.pubEncrKey = assignCtxt(cleared.pubEncrKey, str[2]),
               !.skSizes = str[3],
               !.keySwitching = Tup([i \in 1 .. nMatrices |-> readMatrix(str[5][i])]),
               !.keySwitchMap = str[6]]
      K2 == rebuildMaps(c, K1, Len(K1.skSizes) - 1)
      K3 == [K2 EXCEPT !.KS_strategy = str[7], !.recryptKeyID = str[8]]
  IN IF str[8] >= 0
       THEN [K3 EXCEPT !.recryptEkey = assignCtxt(cleared.recryptEkey, str[9])]
       ELSE K3

\* writePubKeyBinary
writePubKeyBinary(c, pk) ==
  <<"PK_BEGIN", contextBase(c), pk.pubEncrKey, pk.skSizes,
    Tup([i \in 1 .. Len(pk.keySwitching) |-> writeMatrixBinary(pk.keySwitching[i])]),
    Len(pk.keySwitchMap), pk.keySwitchMap, pk.KS_strategy, pk.recryptKeyID,
    pk.recryptEkey, "PK_END">>

\* readPubKeyBinary
readPubKeyBinary(c, pk, str) ==
  [pk EXCEPT
     !.pubEncrKey = assignCtxt(pk.pubEncrKey, str[3]),
     !.skSizes = str[4],
     !.keySwitching = Tup([i \in 1 .. Len(str[5]) |-> readMatrixBinary(str[5][i])]),
     !.keySwitchMap = Tup([i \in 1 .. str[6] |-> str[7][i]]),
     !.KS_strategy = str[8],
     !.recryptKeyID = str[9],
     !.recryptEkey = assignCtxt(pk.recryptEkey, str[10])]

\* operator<<(ostream&, const FHESecKey&)
writeSecKeyText(c, sk) == <<writePubKeyText(c, sk), Len(sk.sKeys), sk.sKeys>>

\* operator>>(istream&, FHESecKey&)
readSecKeyText(c, sk, str) ==
  LET pk == readPubKeyText(c, [sk EXCEPT !.sKeys = <<>>], str[1])
  IN [pk EXCEPT !.sKeys = Tup([i \in 1 .. str[2] |-> str[3][i]])]

\* writeSecKeyBinary
writeSecKeyBinary(c, sk) == <<"SK_BEGIN", writePubKeyBinary(c, sk), sk.sKeys, "SK_END">>

\* readSecKeyBinary
readSecKeyBinary(c, sk, str) ==
  [readPubKeyBinary(c, sk, str[2]) EXCEPT !.sKeys = str[3]]

(***************************************************************************)
(* Contexts and inputs                                                     *)
(***************************************************************************)
MaxKeys == 2
MaxMatrices == 2

\* an immutable FHEcontext: cyclotomic index m, plaintext base p^r, the
\* integer (BGV) or approximate (CKKS) variant, Gaussian width, the primes
\* and their partition into digits, and the bootstrapping data if any
Context(m, p, r, ckks, digits, boot) ==
  [m |-> m, p |-> p, r |-> r, pPowR |-> p ^ r, ckks |-> ckks,
   stdev |-> 3, ctxtPrimes |-> {11, 13}, specialPrimes |-> {17}, digits |-> digits,
   bootstrappable |-> boot, rcPPowR |-> IF boot THEN 4 * (p ^ r) ELSE 0,
   rcSkHwt |-> IF boot THEN 2 ELSE 0]

KeyContexts ==
  { Context(5, 2, 1, FALSE, <<{11}, {13}>>, TRUE) }

\* the secret-key polynomial the caller imports as key number idx
SecretPoly(c, idx) ==
  DCRT(allPrimes(c), [i \in 1 .. getPhiM(c.m) |->
                        IF i = idx + 1 THEN 1 ELSE IF i = idx + 2 THEN -1 ELSE 0])

\* the Hamming weight the caller declares for it
SecretSize(c, idx) ==
  Cardinality({ i \in 1 .. getPhiM(c.m) : SecretPoly(c, idx).c[i] # 0 })

ConstPoly(c, v) == Tup([i \in 1 .. getPhiM(c.m) |-> IF i = 1 THEN v ELSE 0])

\* the draws of one GenKeySWmatrix call
GenDraws(c, seed) ==
  [seed |-> seed, errs |-> Tup([i \in 1 .. Len(c.digits) |-> ConstPoly(c, 1)])]

\* the draws of one ImportSecKey call
ImportDraws(c, seed) ==
  [c1 |-> ConstPoly(c, 5), e |-> ConstPoly(c, 1), gen |-> GenDraws(c, seed)]

\* the requests of GenKeySWmatrix the callers make:
\* <<fromSPower, fromXPower, fromIdx, toIdx, p>>
GenRequests ==
  { <<1, 2, 0, 0, 0>>, <<1, 4, 0, 0, 4>>, <<1, 2, 1, 1, 0>>,
    <<1, 1, 0, 0, 0>>, <<1, 0, 3, 3, 0>>, <<1, 2, 0, 3, 0>> }

\* the requests of ImportSecKey the callers make: <<ptxtSpace, maxDegKswitch>>
ImportRequests == { <<0, 1>>, <<0, 2>> }

\* the handles a caller can look up: powerOfX in [0, m)
Handles(c) ==
  { SKHandle(sp, xp, id) : sp \in {1, 2}, xp \in 0 .. c.m - 1, id \in 0 .. MaxKeys - 1 }

\* the lookups the callers make: <<powerOfS, powerOfX, secretKeyID, toIdx>>
LookupRequests == { <<1, 2, 0, 0>>, <<2, 1, 0, 0>>, <<1, 2, 1, 1>> }

(***************************************************************************)
(* The state machine of the key object                                     *)
(***************************************************************************)
Call(op, out) == [op |-> op, out |-> out]

\* nothing encrypted: the record of the last encryption (the operation, the
\* way it ended, the plaintext, the requested and the effective plaintext
\* space, the secret key and the draws)
NoSent == [op |-> "none", out |-> "ok", ptxt |-> <<>>, req |-> 0, p |-> 0,
           skIdx |-> 0, r |-> <<>>, e |-> <<>>]

\* the key object and the caller's ciphertext after construction
Constructed ==
  /\ sKeys = <<>> /\ skSizes = <<>>
  /\ pubEncrKey = NewCtxt(ctx, 0)
  /\ keySwitching = <<>> /\ keySwitchMap = <<>>
  /\ KS_strategy = <<>>
  /\ recryptKeyID = -1
  /\ recryptEkey = NewCtxt(ctx, 0)
  /\ ctxt = NewCtxt(ctx, 0)
  /\ plaintxt = <<>>
  /\ ret = Call("new", "ok")
  /\ pkErr = <<>>
  /\ sent = NoSent

Init == ctx \in KeyContexts /\ Constructed

SetKey(K) ==
  /\ sKeys' = K.sKeys /\ skSizes' = K.skSizes /\ pubEncrKey' = K.pubEncrKey
  /\ keySwitching' = K.keySwitching /\ keySwitchMap' = K.keySwitchMap
  /\ KS_strategy' = K.KS_strategy /\ recryptKeyID' = K.recryptKeyID
  /\ recryptEkey' = K.recryptEkey

keyVars == <<sKeys, skSizes, pubEncrKey, keySwitching, keySwitchMap, KS_strategy,
             recryptKeyID, recryptEkey>>

WithinBounds(K) == Len(K.sKeys) <= MaxKeys /\ Len(K.keySwitching) <= MaxMatrices

\* the seed RandomBits gives for the next matrix
NextSeed == 3 + Len(keySwitching)

\* the requests a caller can make on this context: an automorphism power
\* is a unit modulo m in [1, m), or is not positive
ValidRequest(c, req) == req[2] <= 0 \/ (req[2] < c.m /\ inZmStar(req[2], c.m))

DoImportSecKey ==
  \E req \in ImportRequests :
    \E r \in {ImportSecKey(ctx, Key, SecretPoly(ctx, Len(sKeys)),
                           SecretSize(ctx, Len(sKeys)),
                           req[1], req[2], ImportDraws(ctx, NextSeed))} :
       /\ WithinBounds(r.key)
       /\ SetKey(r.key)
       /\ pkErr' = IF sKeys = <<>> THEN ImportDraws(ctx, NextSeed).e ELSE pkErr
       /\ ret' = Call("ImportSecKey", r.out)
       /\ UNCHANGED <<ctx, ctxt, plaintxt, sent>>

DoGenKeySWmatrix ==
  \E req \in GenRequests :
    \E r \in {GenKeySWmatrix(ctx, Key, req[1], req[2], req[3], req[4], req[5],
                             GenDraws(ctx, NextSeed))} :
       /\ ValidRequest(ctx, req)
       /\ WithinBounds(r.key)
       /\ SetKey(r.key)
       /\ ret' = Call("GenKeySWmatrix", r.out)
       /\ UNCHANGED <<ctx, ctxt, plaintxt, pkErr, sent>>

DoSetKeySwitchMap ==
  \E keyId \in -1 .. MaxKeys :
    \E r \in {setKeySwitchMap(ctx, Key, keyId)} :
       /\ SetKey(r.key)
       /\ ret' = Call("setKeySwitchMap", r.out)
       /\ UNCHANGED <<ctx, ctxt, plaintxt, pkErr, sent>>

RecryptDraws(c, seed, idx) ==
  [keyPoly |-> DCRTtoPoly(SecretPoly(c, idx)),
   imp |-> ImportDraws(c, seed), gen |-> GenDraws(c, seed),
   enc |-> [r |-> ConstPoly(c, 1), e |-> <<ConstPoly(c, 1), ConstPoly(c, 0)>>]]

DoGenRecryptData ==
  \E r \in {genRecryptData(ctx, Key, RecryptDraws(ctx, NextSeed, Len(sKeys)))} :
     /\ WithinBounds(r.key)
     /\ SetKey(r.key)
     /\ pkErr' = IF sKeys = <<>> /\ r.key.sKeys # <<>>
                   THEN ImportDraws(ctx, NextSeed).e ELSE pkErr
     /\ ret' = Call("genRecryptData", r.out)
     /\ UNCHANGED <<ctx, ctxt, plaintxt, sent>>

\* a lookup is const: only the caller sees its result, the index in the
\* registry of the matrix returned (-1: the dummy)
DoGetKeySWmatrix ==
  \E q \in LookupRequests :
    \E r \in {getKeySWmatrix(Key, SKHandle(q[1], q[2], q[3]), q[4])} :
       /\ ret' = Call("getKeySWmatrix", r.out)
       /\ UNCHANGED <<ctx, keyVars, ctxt, plaintxt, pkErr, sent>>

DoGetAnyKeySWmatrix ==
  \E q \in LookupRequests :
    \E r \in {getAnyKeySWmatrix(Key, SKHandle(q[1], q[2], q[3]))} :
       /\ ret' = Call("getAnyKeySWmatrix", r.out)
       /\ UNCHANGED <<ctx, keyVars, ctxt, plaintxt, pkErr, sent>>

\* the key is written and read back into a new key object, which the
\* program goes on with
DoReadSecKeyText ==
  /\ SetKey(readSecKeyText(ctx, BlankKey(ctx), writeSecKeyText(ctx, Key)))
  /\ ret' = Call("readSecKeyText", "ok")
  /\ UNCHANGED <<ctx, ctxt, plaintxt, pkErr, sent>>

DoReadSecKeyBinary ==
  /\ SetKey(readSecKeyBinary(ctx, BlankKey(ctx), writeSecKeyBinary(ctx, Key)))
  /\ ret' = Call("readSecKeyBinary", "ok")
  /\ UNCHANGED <<ctx, ctxt, plaintxt, pkErr, sent>>

Next ==
  \/ DoImportSecKey
  \/ DoGenKeySWmatrix
  \/ DoSetKeySwitchMap
  \/ DoGenRecryptData
  \/ DoGetKeySWmatrix
  \/ DoGetAnyKeySWmatrix
  \/ DoReadSecKeyText
  \/ DoReadSecKeyBinary

Spec == Init /\ [][Next]_vars

(***************************************************************************)
(* The state machine of encryption and decryption: a caller sets the keys  *)
(* up, then encrypts into its ciphertext object, or is handed a ciphertext,*)
(* and decrypts                                                            *)
(***************************************************************************)
\* m = 3 is not a power of two, m = 4 is one
CryptContexts ==
  { Context(3, 2, 2, FALSE, <<{11}, {13}>>, FALSE),
    Context(4, 3, 1, FALSE, <<{11}, {13}>>, FALSE) }

InitCrypt == ctx \in CryptContexts /\ Constructed

\* <<ptxtSpace, maxDegKswitch>>: the default plaintext space, and 6
CryptImportRequests == { <<0, 1>>, <<6, 1>> }

\* <<fromSPower, fromXPower, fromIdx, toIdx, p>>
CryptGenRequests(c) == { <<2, c.m - 1, 0, 0, 0>>, <<1, 1, 0, 1, 0>> }

\* the plaintext spaces requested of Encrypt, and of skEncrypt
EncryptModuli == { 0, 2, 3, 4, 5 }
SkEncryptModuli == { 0, 2 }

\* the polynomial a + b X
Poly2(c, a, b) ==
  Tup([i \in 1 .. getPhiM(c.m) |-> IF i = 1 THEN a ELSE IF i = 2 THEN b ELSE 0])

\* the plaintexts with coefficients in [0, p)
Plaintexts(c, p) == { Tup(f) : f \in [1 .. getPhiM(c.m) -> 0 .. p - 1] }

\* <<highNoise, draws>> of one Encrypt call: small draws, and a Gaussian
\* draw far in the tail
EncryptDraws(c) ==
  { <<FALSE, [r |-> Poly2(c, 1, -1), e |-> <<Poly2(c, 1, 0), Poly2(c, 0, -1)>>]>>,
    <<TRUE,  [r |-> Poly2(c, 1, -1), e |-> <<Poly2(c, 2, -1), Poly2(c, 0, -1)>>]>>,
    <<FALSE, [r |-> Poly2(c, 1, 0), e |-> <<Poly2(c, 40, 0), Poly2(c, 0, 0)>>]>> }

\* the draws of one skEncrypt call
SkEncryptDraws(c) ==
  { [c1 |-> Poly2(c, 5, 7), e |-> Poly2(c, 1, -2)],
    [c1 |-> Poly2(c, 5, 7), e |-> Poly2(c, 0, 40)] }

\* the ciphertexts a caller is handed: a part that points to one, and a
\* part under a power of a key with its indeterminate substituted; one of
\* them with the plaintext space 1 of the approximate variant
ReceivedCtxts(c, p) ==
  { [NewCtxt(c, p) EXCEPT
       !.parts = <<CtxtPart(DCRT(c.ctxtPrimes, Poly2(c, 3, 1)), SKHandle(0, 1, 0)),
                   CtxtPart(DCRT(c.ctxtPrimes, Poly2(c, 1, 2)), h)>>] :
    h \in { SKHandle(2, 1, 0), SKHandle(1, c.m - 1, 0), SKHandle(2, c.m - 1, 1),
            SKHandle(1, 1, MaxKeys) } }
  \cup
  { [NewCtxt(c, 1) EXCEPT
       !.parts = <<CtxtPart(DCRT(c.ctxtPrimes, Poly2(c, 3, 1)), SKHandle(0, 1, 0)),
                   CtxtPart(DCRT(c.ctxtPrimes, Poly2(c, 1, 2)), SKHandle(1, 1, 0))>>] }

\* the caller holds no ciphertext
NoCtxt == ctxt.parts = <<>>

DoCryptImportSecKey ==
  /\ NoCtxt
  /\ \E req \in CryptImportRequests :
       \E r \in {ImportSecKey(ctx, Key, SecretPoly(ctx, Len(sKeys)),
                              SecretSize(ctx, Len(sKeys)),
                              req[1], req[2], ImportDraws(ctx, NextSeed))} :
          /\ WithinBounds(r.key)
          /\ SetKey(r.key)
          /\ pkErr' = IF sKeys = <<>> THEN ImportDraws(ctx, NextSeed).e ELSE pkErr
          /\ ret' = Call("ImportSecKey", r.out)
          /\ UNCHANGED <<ctx, ctxt, plaintxt, sent>>

DoCryptGenKeySWmatrix ==
  /\ NoCtxt
  /\ \E req \in CryptGenRequests(ctx) :
       \E r \in {GenKeySWmatrix(ctx, Key, req[1], req[2], req[3], req[4], req[5],
                                GenDraws(ctx, NextSeed))} :
          /\ WithinBounds(r.key)
          /\ SetKey(r.key)
          /\ ret' = Call("GenKeySWmatrix", r.out)
          /\ UNCHANGED <<ctx, ctxt, plaintxt, pkErr, sent>>

\* KeySwitch::verify(sk) on a matrix of the registry
DoVerify ==
  /\ NoCtxt
  /\ \E i \in 1 .. Len(keySwitching) :
       \E r \in {verify(ctx, Key, keySwitching[i])} :
          /\ SetKey(r.key)
          /\ ret' = Call("verify", r.out)
          /\ UNCHANGED <<ctx, ctxt, plaintxt, pkErr, sent>>

\* Encrypt into a ciphertext object that holds no encryption of the caller
DoEncrypt ==
  /\ sKeys # <<>>
  /\ sent = NoSent
  /\ \E req \in EncryptModuli, d \in EncryptDraws(ctx) :
       \E ptxt \in Plaintexts(ctx, GCD(req, pubEncrKey.ptxtSpace)) :
         \E r \in {Encrypt(ctx, Key, ctxt, ptxt, req, d[1], d[2])} :
            /\ ctxt' = r.ctxt
            /\ ret' = Call("Encrypt", r.out)
            /\ sent' = [op |-> "Encrypt", out |-> r.out, ptxt |-> ptxt, req |-> req, p |-> r.val,
                        skIdx |-> 0, r |-> d[2].r, e |-> d[2].e]
            /\ plaintxt' = <<>>
            /\ UNCHANGED <<ctx, keyVars, pkErr>>

DoSkEncrypt ==
  /\ sKeys # <<>>
  /\ NoCtxt
  /\ \E req \in SkEncryptModuli, skIdx \in 0 .. MaxKeys - 1, d \in SkEncryptDraws(ctx) :
       \E ptxt \in Plaintexts(ctx, IF req < 2 THEN pubEncrKey.ptxtSpace ELSE req) :
         \E r \in {skEncrypt(ctx, Key, ctxt, ptxt, req, skIdx, d)} :
            /\ ctxt' = r.ctxt
            /\ ret' = Call("skEncrypt", r.out)
            /\ sent' = [op |-> "skEncrypt", out |-> r.out, ptxt |-> ptxt, req |-> req, p |-> r.val,
                        skIdx |-> skIdx, r |-> d.c1, e |-> d.e]
            /\ plaintxt' = <<>>
            /\ UNCHANGED <<ctx, keyVars, pkErr>>

\* the caller is handed a ciphertext
DoReceiveCtxt ==
  /\ sKeys # <<>>
  /\ NoCtxt
  /\ ctxt' \in ReceivedCtxts(ctx, pubEncrKey.ptxtSpace)
  /\ ret' = Call("receive", "ok")
  /\ plaintxt' = <<>>
  /\ sent' = NoSent
  /\ UNCHANGED <<ctx, keyVars, pkErr>>

DoDecrypt ==
  /\ ~NoCtxt
  /\ \E d \in {Decrypt(ctx, Key, ctxt)} :
       /\ SetKey(d.key)
       /\ plaintxt' = d.plaintxt
       /\ ret' = Call("Decrypt", d.out)
       /\ UNCHANGED <<ctx, ctxt, pkErr, sent>>

\* the caller drops its ciphertext and takes a new ciphertext object
DoNewCtxt ==
  /\ ~NoCtxt \/ sent # NoSent
  /\ ctxt' = NewCtxt(ctx, 0)
  /\ plaintxt' = <<>>
  /\ sent' = NoSent
  /\ ret' = Call("Ctxt", "ok")
  /\ UNCHANGED <<ctx, keyVars, pkErr>>

NextCrypt ==
  \/ DoCryptImportSecKey
  \/ DoCryptGenKeySWmatrix
  \/ DoVerify
  \/ DoEncrypt
  \/ DoSkEncrypt
  \/ DoReceiveCtxt
  \/ DoDecrypt
  \/ DoNewCtxt

SpecCrypt == InitCrypt /\ [][NextCrypt]_vars

(***************************************************************************)
(* The state machine of key setup over the variants of the scheme: the     *)
(* approximate variant, the integer variant with and without bootstrapping *)
(***************************************************************************)
VariantContexts ==
  { Context(4, 2, 1, TRUE, <<{11, 13}>>, FALSE),
    Context(5, 2, 1, FALSE, <<{11}, {13}>>, TRUE),
    Context(3, 2, 2, FALSE, <<{11}, {13}>>, FALSE) }

InitVariants == ctx \in VariantContexts /\ Constructed

\* <<ptxtSpace, maxDegKswitch>>
VariantImportRequests == { <<0, 1>>, <<0, 2>>, <<2, 1>> }

\* <<fromSPower, fromXPower, fromIdx, toIdx, p>>
VariantGenRequests(c) ==
  { <<2, 1, 0, 0, 0>>, <<1, c.m - 1, 0, 0, 4>>, <<1, 1, 0, 1, 1>>,
    <<1, c.m - 1, 0, MaxKeys, 0>>, <<2, 1, -1, 0, 4>> }

\* the call and its arguments are recorded in sent: req is the plaintext
\* space passed, r the other arguments
DoVariantImportSecKey ==
  \E req \in VariantImportRequests :
    \E r \in {ImportSecKey(ctx, Key, SecretPoly(ctx, Len(sKeys)),
                           SecretSize(ctx, Len(sKeys)),
                           req[1], req[2], ImportDraws(ctx, NextSeed))} :
       /\ WithinBounds(r.key)
       /\ SetKey(r.key)
       /\ pkErr' = IF sKeys = <<>> THEN ImportDraws(ctx, NextSeed).e ELSE pkErr
       /\ ret' = Call("ImportSecKey", r.out)
       /\ sent' = [NoSent EXCEPT !.op = "ImportSecKey", !.out = r.out,
                                 !.req = req[1], !.r = <<req[2]>>]
       /\ UNCHANGED <<ctx, ctxt, plaintxt>>

DoVariantGenKeySWmatrix ==
  \E req \in VariantGenRequests(ctx) :
    \E r \in {GenKeySWmatrix(ctx, Key, req[1], req[2], req[3], req[4], req[5],
                             GenDraws(ctx, NextSeed))} :
       /\ WithinBounds(r.key)
       /\ SetKey(r.key)
       /\ ret' = Call("GenKeySWmatrix", r.out)
       /\ sent' = [NoSent EXCEPT !.op = "GenKeySWmatrix", !.out = r.out,
                                 !.req = req[5],
                                 !.r = <<req[1], req[2], req[3], req[4]>>]
       /\ UNCHANGED <<ctx, ctxt, plaintxt, pkErr>>

NextVariants ==
  \/ DoVariantImportSecKey
  \/ DoVariantGenKeySWmatrix
  \/ DoSetKeySwitchMap

SpecVariants == InitVariants /\ [][NextVariants]_vars

(***************************************************************************)
(* Calls that violate the contract of the key object: key indices outside  *)
(* the stored keys, and ciphertexts of another key and context             *)
(***************************************************************************)
\* a ciphertext bound to another public key, of another context
ForeignCtxt(c, p) ==
  [NewCtxt(c, p) EXCEPT
     !.parts = <<CtxtPart(DCRT(c.ctxtPrimes, Poly2(c, 3, 1)), SKHandle(0, 1, 0)),
                 CtxtPart(DCRT(c.ctxtPrimes, Poly2(c, 1, 2)), SKHandle(1, 1, 0))>>,
     !.pubKey = 1, !.context = 1]

\* the caller passes such a ciphertext to Encrypt, skEncrypt or Decrypt
DoForeignCall ==
  /\ sKeys # <<>>
  /\ \/ \E r \in {Encrypt(ctx, Key, ForeignCtxt(ctx, pubEncrKey.ptxtSpace), Poly2(ctx, 1, 1),
                          pubEncrKey.ptxtSpace, FALSE,
                          [r |-> Poly2(ctx, 1, -1),
                           e |-> <<Poly2(ctx, 1, 0), Poly2(ctx, 0, -1)>>])} :
          /\ ctxt' = r.ctxt
          /\ plaintxt' = <<>>
          /\ ret' = Call("Encrypt", r.out)
          /\ UNCHANGED keyVars
     \/ \E r \in {skEncrypt(ctx, Key, ForeignCtxt(ctx, pubEncrKey.ptxtSpace), Poly2(ctx, 1, 1),
                            0, 0, [c1 |-> Poly2(ctx, 5, 7), e |-> Poly2(ctx, 1, -2)])} :
          /\ ctxt' = r.ctxt
          /\ plaintxt' = <<>>
          /\ ret' = Call("skEncrypt", r.out)
          /\ UNCHANGED keyVars
     \/ \E d \in {Decrypt(ctx, Key, ForeignCtxt(ctx, pubEncrKey.ptxtSpace))} :
          /\ SetKey(d.key)
          /\ ctxt' = ForeignCtxt(ctx, pubEncrKey.ptxtSpace)
          /\ plaintxt' = d.plaintxt
          /\ ret' = Call("Decrypt", d.out)
  /\ sent' = NoSent
  /\ UNCHANGED <<ctx, pkErr>>

NextContracts ==
  \/ DoCryptImportSecKey
  \/ DoVariantGenKeySWmatrix
  \/ DoSetKeySwitchMap
  \/ DoForeignCall

SpecContracts == InitCrypt /\ [][NextContracts]_vars

(***************************************************************************)
(* Threads that share one key object after its setup.  In this state       *)
(* machine sent holds, for every thread, its last call (op, out), the      *)
(* argument req, the value val it returned and the thread's own ciphertext *)
(* object ctxt; every call is one step.                                    *)
(***************************************************************************)
Threads == { "t1", "t2" }

ThreadIdle(c) ==
  [op |-> "none", out |-> "ok", req |-> <<>>, val |-> <<>>, ctxt |-> NewCtxt(c, 0)]

InitThreads ==
  /\ ctx \in CryptContexts
  /\ sKeys = <<>> /\ skSizes = <<>>
  /\ pubEncrKey = NewCtxt(ctx, 0)
  /\ keySwitching = <<>> /\ keySwitchMap = <<>>
  /\ KS_strategy = <<>>
  /\ recryptKeyID = -1
  /\ recryptEkey = NewCtxt(ctx, 0)
  /\ ctxt = NewCtxt(ctx, 0)
  /\ plaintxt = <<>>
  /\ ret = Call("new", "ok")
  /\ pkErr = <<>>
  /\ sent = [t \in Threads |-> ThreadIdle(ctx)]

\* the key is set up before the first thread starts
DoThreadSetup ==
  /\ \A t \in Threads : sent[t].op = "none"
  /\ \/ DoCryptImportSecKey
     \/ DoCryptGenKeySWmatrix
     \/ DoSetKeySwitchMap

\* the setup is over: keys are stored and setKeySwitchMap was called for
\* the last of them
KeyReady == sKeys # <<>> /\ Len(keySwitchMap) = Len(sKeys)

ThreadGetKeySWmatrix(t) ==
  /\ KeyReady
  /\ \E q \in CryptGenRequests(ctx) :
       \E r \in {getKeySWmatrix(Key, SKHandle(q[1], q[2], q[3]), q[4])} :
          /\ SetKey(r.key)
          /\ sent' = [sent EXCEPT ![t] = [@ EXCEPT !.op = "getKeySWmatrix", !.out = r.out,
                                                   !.req = q, !.val = <<r.val>>]]
          /\ UNCHANGED <<ctx, ctxt, plaintxt, ret, pkErr>>

ThreadGetAnyKeySWmatrix(t) ==
  /\ KeyReady
  /\ \E q \in CryptGenRequests(ctx) :
       \E r \in {getAnyKeySWmatrix(Key, SKHandle(q[1], q[2], q[3]))} :
          /\ SetKey(r.key)
          /\ sent' = [sent EXCEPT ![t] = [@ EXCEPT !.op = "getAnyKeySWmatrix", !.out = r.out,
                                                   !.req = q, !.val = <<r.val>>]]
          /\ UNCHANGED <<ctx, ctxt, plaintxt, ret, pkErr>>

\* Encrypt into the thread's ciphertext object, with the plaintext space of
\* the public encryption key
ThreadEncrypt(t) ==
  /\ KeyReady
  /\ \E ptxt \in { Poly2(ctx, 1, 1) } :
       \E r \in {Encrypt(ctx, Key, sent[t].ctxt, ptxt, pubEncrKey.ptxtSpace, FALSE,
                         [r |-> Poly2(ctx, 1, -1),
                          e |-> <<Poly2(ctx, 1, 0), Poly2(ctx, 0, -1)>>])} :
          /\ sent' = [sent EXCEPT ![t] = [@ EXCEPT !.op = "Encrypt", !.out = r.out,
                                                   !.req = ptxt, !.val = <<r.val>>,
                                                   !.ctxt = r.ctxt]]
          /\ UNCHANGED <<ctx, keyVars, ctxt, plaintxt, ret, pkErr>>

\* Decrypt the thread's ciphertext
ThreadDecrypt(t) ==
  /\ sent[t].ctxt.parts # <<>>
  /\ \E d \in {Decrypt(ctx, Key, sent[t].ctxt)} :
       /\ SetKey(d.key)
       /\ sent' = [sent EXCEPT ![t] = [@ EXCEPT !.op = "Decrypt", !.out = d.out,
                                                !.req = <<>>, !.val = d.plaintxt]]
       /\ UNCHANGED <<ctx, ctxt, plaintxt, ret, pkErr>>

NextThreads ==
  \/ DoThreadSetup
  \/ \E t \in Threads : ThreadGetKeySWmatrix(t)
  \/ \E t \in Threads : ThreadGetAnyKeySWmatrix(t)
  \/ \E t \in Threads : ThreadEncrypt(t)
  \/ \E t \in Threads : ThreadDecrypt(t)

SpecThreads == InitThreads /\ [][NextThreads]_vars

(***************************************************************************)
(* RLWE and RLWE1 applied to the inputs of their callers                   *)
(***************************************************************************)
MaxWidth == 3
MaxScale == 3

\* the Gaussian widths the contexts are configured with
Widths == 1 .. MaxWidth

\* a cyclotomic index that is not a power of two, and one that is
RLWEContexts ==
  { [Context(m, 2, 1, FALSE, <<{11}, {13}>>, FALSE) EXCEPT !.stdev = w] :
      m \in {3, 4}, w \in Widths }

InitRLWE == ctx \in RLWEContexts /\ Constructed

\* the prime sets of c0 and c1: those of the public encryption key and
\* those of a key-switching matrix
RLWEPrimeSets(c) == { c.ctxtPrimes, allPrimes(c) }

\* the error polynomials sampleGaussianBounded yields
RLWEErrors(c) ==
  { ConstPoly(c, 1), Tup([i \in 1 .. getPhiM(c.m) |-> IF i = 1 THEN -2 ELSE 1]) }

\* the polynomials c1 holds: supplied by the caller (RLWE1) or drawn (RLWE)
RLWEMasks(c) ==
  { ConstPoly(c, 5), Tup([i \in 1 .. getPhiM(c.m) |-> 3 * i + 4]) }

\* the call is recorded in sent: p the scale, e the error sampled, r the
\* coefficients of the secret key and ptxt those of the c1 passed
RLWECall(op, p, e, s, c1) ==
  [NoSent EXCEPT !.op = op, !.p = p, !.e = e, !.r = s.c, !.ptxt = c1.c]

\* the pair (c0, c1) and the variance, kept in the caller's ciphertext
RLWEPair(c, p, c0, c1, var) ==
  [NewCtxt(c, p) EXCEPT
     !.parts = <<CtxtPart(c0, SKHandle(0, 1, 0)), CtxtPart(c1, SKHandle(1, 1, 0))>>,
     !.primeSet = c0.ps,
     !.noiseVar = var]

DoRLWE1 ==
  \E ps \in RLWEPrimeSets(ctx), idx \in 0 .. 1, p \in 1 .. MaxScale,
     e \in RLWEErrors(ctx), mask \in RLWEMasks(ctx) :
    \E r \in {RLWE1(ctx, DCRTZero(ctx.m, ps), DCRT(ps, mask),
                    SecretPoly(ctx, idx), p, e)} :
       /\ ctxt' = RLWEPair(ctx, p, r.c0, DCRT(ps, mask), r.var)
       /\ sent' = RLWECall("RLWE1", p, e, SecretPoly(ctx, idx), DCRT(ps, mask))
       /\ ret' = Call("RLWE1", "ok")
       /\ UNCHANGED <<ctx, keyVars, plaintxt, pkErr>>

DoRLWE ==
  \E ps \in RLWEPrimeSets(ctx), idx \in 0 .. 1, p \in 1 .. MaxScale,
     e \in RLWEErrors(ctx), draw \in RLWEMasks(ctx) :
    \E r \in {RLWE(ctx, DCRTZero(ctx.m, ps), DCRTZero(ctx.m, ps),
                   SecretPoly(ctx, idx), p, draw, e)} :
       /\ ctxt' = RLWEPair(ctx, p, r.c0, r.c1, r.var)
       /\ sent' = RLWECall("RLWE", p, e, SecretPoly(ctx, idx), DCRTZero(ctx.m, ps))
       /\ ret' = Call("RLWE", "ok")
       /\ UNCHANGED <<ctx, keyVars, plaintxt, pkErr>>

NextRLWE == DoRLWE1 \/ DoRLWE

SpecRLWE == InitRLWE /\ [][NextRLWE]_vars

(***************************************************************************)
(* The pseudorandom generator: GenKeySWmatrix and verify draw the uniform  *)
(* halves a[i] from the stored seed inside a RandomState block; the state  *)
(* of the caller's generator is kept in sent.rng                           *)
(***************************************************************************)
\* the generator after SetSeed(seed): the seed and the number of draws made
SetSeed(seed) == [seed |-> seed, count |-> 0]

\* the generator after k more draws
drawn(rng, k) == [rng EXCEPT !.count = @ + k]

\* RandomBits(prgSeed, 256): the value the generator yields
RandomBits(rng) == 3 + ((2 * rng.seed + rng.count) % 4)

\* the block without the RandomState object: the generator is left where
\* the n seeded draws end
seededDrawsNotRestored(c, rng, prgSeed, n) ==
  [a |-> Tup([i \in 1 .. n |-> PRGdraw(prgSeed, i - 1, c.m, allPrimes(c))]),
   rng |-> drawn(SetSeed(prgSeed), n)]

\* { RandomState state; SetSeed(prgSeed); a[i].randomize() for i < n; }:
\* the draws, and the generator after the block, restored by ~RandomState
seededDraws(c, rng, prgSeed, n) ==
  LET state == rng
      seeded(i) == drawn(SetSeed(prgSeed), i)
  IN [a |-> Tup([i \in 1 .. n |->
                   PRGdraw(seeded(i - 1).seed, seeded(i - 1).count, c.m, allPrimes(c))]),
      rng |-> state]

\* the record of the last call: the generator after it, the seed of the
\* block it ran, the a[i] it drew and the count verify printed
SeedCall(op, rng, seed, a, val) ==
  [op |-> op, rng |-> rng, seed |-> seed, a |-> a, val |-> val]

InitSeed ==
  /\ ctx \in CryptContexts
  /\ sKeys = <<>> /\ skSizes = <<>>
  /\ pubEncrKey = NewCtxt(ctx, 0)
  /\ keySwitching = <<>> /\ keySwitchMap = <<>>
  /\ KS_strategy = <<>>
  /\ recryptKeyID = -1
  /\ recryptEkey = NewCtxt(ctx, 0)
  /\ ctxt = NewCtxt(ctx, 0)
  /\ plaintxt = <<>>
  /\ ret = Call("new", "ok")
  /\ pkErr = <<>>
  /\ \E s \in {1, 2} : sent = SeedCall("none", SetSeed(s), 0, <<>>, 0)

\* ImportSecKey: the first key draws the two halves of the public key
DoSeedImportSecKey ==
  \E req \in CryptImportRequests :
    \E r \in {ImportSecKey(ctx, Key, SecretPoly(ctx, Len(sKeys)),
                           SecretSize(ctx, Len(sKeys)),
                           req[1], req[2], ImportDraws(ctx, RandomBits(sent.rng)))} :
       /\ WithinBounds(r.key)
       /\ SetKey(r.key)
       /\ pkErr' = IF sKeys = <<>> THEN ImportDraws(ctx, RandomBits(sent.rng)).e ELSE pkErr
       /\ ret' = Call("ImportSecKey", r.out)
       /\ sent' = SeedCall("ImportSecKey",
                           IF sKeys = <<>> THEN drawn(sent.rng, 2) ELSE sent.rng, 0, <<>>, 0)
       /\ UNCHANGED <<ctx, ctxt, plaintxt>>

\* GenKeySWmatrix: RandomBits gives the seed, the block draws the a[i],
\* each RLWE1 call samples its error
DoSeedGenKeySWmatrix ==
  \E req \in CryptGenRequests(ctx) :
    \E seed \in {RandomBits(sent.rng)} :
      \E r \in {GenKeySWmatrix(ctx, Key, req[1], req[2], req[3], req[4], req[5],
                               GenDraws(ctx, seed))} :
        \E block \in {seededDraws(ctx, drawn(sent.rng, 1), seed, digitCount(ctx))} :
           /\ WithinBounds(r.key)
           /\ SetKey(r.key)
           /\ ret' = Call("GenKeySWmatrix", r.out)
           /\ sent' = IF Len(r.key.keySwitching) = Len(keySwitching)
                        THEN SeedCall("GenKeySWmatrix", sent.rng, 0, <<>>, 0)
                        ELSE SeedCall("GenKeySWmatrix", drawn(block.rng, digitCount(ctx)),
                                      seed, block.a, 0)
           /\ UNCHANGED <<ctx, ctxt, plaintxt, pkErr>>

\* KeySwitch::verify(sk) on a matrix of the registry: the block is run
\* when the parameters are checkable
DoSeedVerify ==
  \E i \in 1 .. Len(keySwitching) :
    \E r \in {verify(ctx, Key, keySwitching[i])} :
      \E block \in {seededDraws(ctx, sent.rng, keySwitching[i].prgSeed,
                                 Len(keySwitching[i].b))} :
         /\ SetKey(r.key)
         /\ ret' = Call("verify", r.out)
         /\ sent' = IF r.out # "ok" \/ r.val < 0
                      THEN SeedCall("verify", sent.rng, 0, <<>>, r.val)
                      ELSE SeedCall("verify", block.rng, keySwitching[i].prgSeed,
                                    block.a, r.val)
         /\ UNCHANGED <<ctx, ctxt, plaintxt, pkErr>>

NextSeedCalls == DoSeedImportSecKey \/ DoSeedGenKeySWmatrix \/ DoSeedVerify

SpecSeed == InitSeed /\ [][NextSeedCalls]_vars

(***************************************************************************)
(* operator== applied to the key objects of one context                    *)
(***************************************************************************)
RECURSIVE strategyReads(_, _)
\* the indices KS_strategy[n-1] the trimming loop reads, from n on: with
\* n = 0 it reads the index -1 and stops, whatever the read yields
strategyReads(v, n) ==
  IF n < 0 THEN {}
  ELSE IF n = 0 THEN {-1}
  ELSE IF v[n] = FHE_KSS_UNKNOWN THEN {n - 1} \cup strategyReads(v, n - 1)
  ELSE {n - 1}

\* the comparison gets as far as the strategy vectors: no field compared
\* before them has decided it
comparesStrategies(A, B) ==
  /\ ctxtEqualsTo(A.pubEncrKey, B.pubEncrKey)
  /\ A.skSizes = B.skSizes
  /\ Len(A.keySwitching) = Len(B.keySwitching)
  /\ \A i \in 1 .. Len(A.keySwitching) : keySwitchEq(A.keySwitching[i], B.keySwitching[i])
  /\ A.keySwitchMap = B.keySwitchMap

\* the key objects compared: a key with no matrix, with the matrix
\* s^2 -> s and with the matrix s(X^(m-1)) -> s, each with the strategy
\* vectors setKSStrategy leaves (FHE_KSS_UNKNOWN is 0)
EqKeys(c) ==
  LET base == ImportSecKey(c, BlankKey(c), SecretPoly(c, 0), SecretSize(c, 0),
                           0, 1, ImportDraws(c, 3)).key
      mats == { base,
                GenKeySWmatrix(c, base, 2, 1, 0, 0, 0, GenDraws(c, 3)).key,
                GenKeySWmatrix(c, base, 1, c.m - 1, 0, 0, 0, GenDraws(c, 3)).key }
  IN { [k EXCEPT !.KS_strategy = v] :
         k \in mats, v \in { <<>>, <<0>>, <<1>>, <<1, 0>> } }

\* the objects A, B and C, and the last comparison x == y
InitEq ==
  /\ ctx \in { Context(3, 2, 2, FALSE, <<{11}, {13}>>, FALSE) }
  /\ sKeys = <<>> /\ skSizes = <<>>
  /\ pubEncrKey = NewCtxt(ctx, 0)
  /\ keySwitching = <<>> /\ keySwitchMap = <<>>
  /\ KS_strategy = <<>>
  /\ recryptKeyID = -1
  /\ recryptEkey = NewCtxt(ctx, 0)
  /\ ctxt = NewCtxt(ctx, 0)
  /\ plaintxt = <<>>
  /\ ret = Call("new", "ok")
  /\ pkErr = <<>>
  /\ \E A \in EqKeys(ctx), B \in EqKeys(ctx), C \in EqKeys(ctx) :
       sent = [op |-> "none", A |-> A, B |-> B, C |-> C, x |-> "A", y |-> "A"]

\* x == y: the same object compares equal at once
DoCompare ==
  \E x \in {"A", "B", "C"}, y \in {"A", "B", "C"} :
    \E o \in (IF x = y THEN {"true"} ELSE pubKeyEq(sent[x], sent[y])) :
       /\ ret' = Call("operator==", o)
       /\ sent' = [sent EXCEPT !.op = "operator==", !.x = x, !.y = y]
       /\ UNCHANGED <<ctx, keyVars, ctxt, plaintxt, pkErr>>

SpecEq == InitEq /\ [][DoCompare]_vars

(***************************************************************************)
(* ImportSecKey called by two threads on one FHESecKey without a lock: a   *)
(* call appends its key in one step and reads the index in a later one     *)
(***************************************************************************)
\* sent[t] is the call of thread t: how far it is ("none", "appended" or
\* the way it ended), its request, the index it returned, the number of
\* keys stored when it began and whether no other call was under way
\* while it ran
InitImport ==
  /\ ctx \in CryptContexts
  /\ sKeys = <<>> /\ skSizes = <<>>
  /\ pubEncrKey = NewCtxt(ctx, 0)
  /\ keySwitching = <<>> /\ keySwitchMap = <<>>
  /\ KS_strategy = <<>>
  /\ recryptKeyID = -1
  /\ recryptEkey = NewCtxt(ctx, 0)
  /\ ctxt = NewCtxt(ctx, 0)
  /\ plaintxt = <<>>
  /\ ret = Call("new", "ok")
  /\ pkErr = <<>>
  /\ sent = [t \in Threads |->
               [op |-> "none", out |-> "none", req |-> <<>>, val |-> <<>>,
                start |-> 0, alone |-> TRUE]]

\* the call up to sKeys.push_back(sKey): thread t imports a key of its own
ImportAppend(t) ==
  /\ sent[t].out # "appended"
  /\ \E req \in ImportRequests :
       \E r \in {ImportSecKey(ctx, Key, SecretPoly(ctx, IF t = "t1" THEN 0 ELSE 1),
                              SecretSize(ctx, IF t = "t1" THEN 0 ELSE 1),
                              req[1], 1, ImportDraws(ctx, NextSeed))} :
          /\ WithinBounds(r.key)
          /\ SetKey(r.key)
          /\ pkErr' = IF sKeys = <<>> THEN ImportDraws(ctx, NextSeed).e ELSE pkErr
          /\ sent' = [u \in Threads |->
                        IF u = t
                          THEN [op |-> "ImportSecKey", out |-> "appended", req |-> req,
                                val |-> <<>>, start |-> Len(sKeys),
                                alone |-> \A v \in Threads \ {t} : sent[v].out # "appended"]
                          ELSE IF sent[u].out = "appended"
                            THEN [sent[u] EXCEPT !.alone = FALSE]
                            ELSE sent[u]]
  /\ UNCHANGED <<ctx, ctxt, plaintxt, ret>>

\* an index read before the key is counted: the length of the list
ImportReturnLength(t) ==
  /\ sent[t].out = "appended"
  /\ \E keyID \in {Len(sKeys)} :
       \E r \in {importMatrices(ctx, Key, keyID - 1, 2, sent[t].req[2],
                                GenDraws(ctx, NextSeed))} :
          /\ WithinBounds(r.key)
          /\ SetKey(r.key)
          /\ ret' = Call("ImportSecKey", r.out)
          /\ sent' = [sent EXCEPT ![t].out = r.out, ![t].val = <<keyID>>]
  /\ UNCHANGED <<ctx, ctxt, plaintxt, pkErr>>

\* keyID = sKeys.size()-1, the matrices s^e -> s of keyID, return keyID
ImportReturn(t) ==
  /\ sent[t].out = "appended"
  /\ \E keyID \in {Len(sKeys) - 1} :
       \E r \in {importMatrices(ctx, Key, keyID, 2, sent[t].req[2],
                                GenDraws(ctx, NextSeed))} :
          /\ WithinBounds(r.key)
          /\ SetKey(r.key)
          /\ ret' = Call("ImportSecKey", r.out)
          /\ sent' = [sent EXCEPT ![t].out = r.out, ![t].val = <<keyID>>]
  /\ UNCHANGED <<ctx, ctxt, plaintxt, pkErr>>

NextImport == \E t \in Threads : ImportAppend(t) \/ ImportReturn(t)

SpecImport == InitImport /\ [][NextImport]_vars

(***************************************************************************)
(* setKeySwitchMap step by step: the search runs one loop iteration at a   *)
(* time, its local variables kept in sent while the call is running        *)
(***************************************************************************)
\* a cyclotomic index whose units are generated by one power, and a larger
\* one
BFSContexts ==
  { Context(5, 2, 1, FALSE, <<{11}, {13}>>, FALSE),
    Context(7, 2, 1, FALSE, <<{11, 13}>>, FALSE) }

\* no call of setKeySwitchMap is running
BFSIdle == [op |-> "none", keyId |-> -1, edges |-> <<>>, queue |-> <<>>,
            j |-> 0, pushed |-> <<>>]

InitBFS ==
  /\ ctx \in BFSContexts
  /\ sKeys = <<>> /\ skSizes = <<>>
  /\ pubEncrKey = NewCtxt(ctx, 0)
  /\ keySwitching = <<>> /\ keySwitchMap = <<>>
  /\ KS_strategy = <<>>
  /\ recryptKeyID = -1
  /\ recryptEkey = NewCtxt(ctx, 0)
  /\ ctxt = NewCtxt(ctx, 0)
  /\ plaintxt = <<>>
  /\ ret = Call("new", "ok")
  /\ pkErr = <<>>
  /\ sent = BFSIdle

\* the matrices the callers ask for before routing: automorphisms of key 0
\* and one of key 1
BFSGenRequests(c) ==
  { <<1, 2, 0, 0, 0>>, <<1, 3, 0, 0, 0>>, <<1, c.m - 1, 0, 0, 0>>, <<1, 2, 1, 1, 0>> }

DoBFSImportSecKey ==
  /\ sent = BFSIdle
  /\ \E r \in {ImportSecKey(ctx, Key, SecretPoly(ctx, Len(sKeys)),
                             SecretSize(ctx, Len(sKeys)),
                             0, 1, ImportDraws(ctx, NextSeed))} :
       /\ WithinBounds(r.key)
       /\ SetKey(r.key)
       /\ pkErr' = IF sKeys = <<>> THEN ImportDraws(ctx, NextSeed).e ELSE pkErr
       /\ ret' = Call("ImportSecKey", r.out)
       /\ UNCHANGED <<ctx, ctxt, plaintxt, sent>>

DoBFSGenKeySWmatrix ==
  /\ sent = BFSIdle
  /\ \E req \in BFSGenRequests(ctx) :
       \E r \in {GenKeySWmatrix(ctx, Key, req[1], req[2], req[3], req[4], req[5],
                                GenDraws(ctx, NextSeed))} :
          /\ WithinBounds(r.key)
          /\ SetKey(r.key)
          /\ ret' = Call("GenKeySWmatrix", r.out)
          /\ UNCHANGED <<ctx, ctxt, plaintxt, pkErr, sent>>

\* the table of keyId emptied: resize, then assign(m, -1)
clearedMap(c, K, keyId) ==
  LET resized == IF keyId >= Len(K.keySwitchMap)
                   THEN Tup([i \in 1 .. keyId + 1 |->
                               IF i <= Len(K.keySwitchMap) THEN K.keySwitchMap[i]
                               ELSE <<>>])
                   ELSE K.keySwitchMap
  IN [resized EXCEPT ![keyId + 1] = Tup([i \in 1 .. c.m |-> -1])]

\* the call up to the first test of the while loop: the edges are
\* collected, the table is emptied and the target node 1 is pushed
BFSStart ==
  /\ sent = BFSIdle
  /\ \E keyId \in -1 .. MaxKeys :
       IF ~(keyId >= 0 /\ keyId < Len(skSizes))
         THEN /\ ret' = Call("setKeySwitchMap", "assert")
              /\ UNCHANGED <<ctx, keyVars, ctxt, plaintxt, pkErr, sent>>
         ELSE /\ keySwitchMap' = clearedMap(ctx, Key, keyId)
              /\ sent' = [op |-> "setKeySwitchMap", keyId |-> keyId,
                          edges |-> keySwitchingEdges(keySwitching, keyId, 0),
                          queue |-> <<1>>, j |-> 0, pushed |-> <<1>>]
              /\ ret' = Call("setKeySwitchMap", "running")
              /\ UNCHANGED <<ctx, sKeys, skSizes, pubEncrKey, keySwitching, KS_strategy,
                             recryptKeyID, recryptEkey, ctxt, plaintxt, pkErr>>

\* one iteration of the loop over the edges, from currentNode: the table
\* and the queue after it
bfsVisitOverwriting(table, queue, edge, currentNode, m) ==
  LET nextNode == MulMod(currentNode, edge[1], m)
  IN [map |-> [table EXCEPT ![nextNode + 1] = edge[2]],
      queue |-> IF table[nextNode + 1] = -1 THEN Append(queue, nextNode) ELSE queue]

bfsVisit(table, queue, edge, currentNode, m) ==
  LET n == edge[1]
      matrixIndex == edge[2]
      nextNode == MulMod(currentNode, n, m)
  IN IF table[nextNode + 1] = -1
       THEN [map |-> [table EXCEPT ![nextNode + 1] = matrixIndex],
             queue |-> Append(queue, nextNode)]
       ELSE [map |-> table, queue |-> queue]

\* the queue left as it is at the end of an iteration of the while loop
bfsPopKept(queue) == queue

\* bfsQueue.pop()
bfsPop(queue) == Tail(queue)

BFSEdge ==
  /\ sent.op = "setKeySwitchMap"
  /\ sent.queue # <<>>
  /\ sent.j < Len(sent.edges)
  /\ \E after \in {bfsVisit(keySwitchMap[sent.keyId + 1], sent.queue,
                             sent.edges[sent.j + 1], Head(sent.queue), ctx.m)} :
       /\ keySwitchMap' = [keySwitchMap EXCEPT ![sent.keyId + 1] = after.map]
       /\ sent' = [sent EXCEPT !.queue = after.queue, !.j = sent.j + 1,
                               !.pushed = IF Len(after.queue) > Len(sent.queue)
                                            THEN Append(sent.pushed, after.queue[Len(after.queue)])
                                            ELSE sent.pushed]
  /\ UNCHANGED <<ctx, sKeys, skSizes, pubEncrKey, keySwitching, KS_strategy,
                 recryptKeyID, recryptEkey, ctxt, plaintxt, ret, pkErr>>

\* the loop over the edges is over: the current node is done
BFSPop ==
  /\ sent.op = "setKeySwitchMap"
  /\ sent.queue # <<>>
  /\ sent.j = Len(sent.edges)
  /\ sent' = [sent EXCEPT !.queue = bfsPop(sent.queue), !.j = 0]
  /\ UNCHANGED <<ctx, keyVars, ctxt, plaintxt, ret, pkErr>>

\* the queue is empty: the call returns
BFSReturn ==
  /\ sent.op = "setKeySwitchMap"
  /\ sent.queue = <<>>
  /\ sent' = BFSIdle
  /\ ret' = Call("setKeySwitchMap", "ok")
  /\ UNCHANGED <<ctx, keyVars, ctxt, plaintxt, pkErr>>

NextBFS ==
  \/ DoBFSImportSecKey
  \/ DoBFSGenKeySWmatrix
  \/ BFSStart
  \/ BFSEdge
  \/ BFSPop
  \/ BFSReturn

SpecBFS == InitBFS /\ [][NextBFS]_vars

\* a call that has started goes on: the program runs it to its end
SpecBFSFair == SpecBFS /\ WF_vars(BFSEdge \/ BFSPop \/ BFSReturn)

(***************************************************************************)
(* Properties of key management, stated over every reachable state of Spec *)
(***************************************************************************)
\* the indices of the stored keys
StoredKeys == 0 .. Len(sKeys) - 1

\* a call of GenKeySWmatrix on the key object as it is now
GenNow(K, req, p) ==
  GenKeySWmatrix(ctx, K, req[1], req[2], req[3], req[4], p,
                 GenDraws(ctx, 3 + Len(K.keySwitching)))

\* the matrices asked for twice: <<fromSPower, fromXPower, fromIdx, toIdx>>
RepeatedRequests == { <<1, 2, 0, 0>>, <<2, 1, 0, 0>>, <<1, 4, 1, 0>> }

\* the plaintext moduli passed by the first and by the second call
RepeatedModuli == { <<0, 4>>, <<4, 0>> }

\* C2: for any key state and any (fromSPower, fromXPower, fromIdx, toIdx)
\* with stored key indices, a second GenKeySWmatrix call with the same four
\* arguments, whatever plaintext modulus either call passes, leaves the
\* registry exactly as the first call left it (length, seeds, digits).
\* The key states are those a GenKeySWmatrix call returned to: these are
\* all of them, since a degenerate request can be made in any state.
C2_GenIdempotent ==
  ret.op = "GenKeySWmatrix" =>
    \A req \in RepeatedRequests : \A pp \in RepeatedModuli :
      (req[3] \in StoredKeys /\ req[4] \in StoredKeys) =>
        LET first == GenNow(Key, req, pp[1])
        IN GenNow(first.key, req, pp[2]).key.keySwitching = first.key.keySwitching

\* a state where a first call has generated W[s_0(X^2) => s_0] and a second
\* call for the same matrix with another plaintext modulus changes nothing
C2_Witness ==
  /\ ret = Call("GenKeySWmatrix", "ok")
  /\ Len(keySwitching) = 1
  /\ keySwitching[1].fromKey = SKHandle(1, 2, 0) /\ keySwitching[1].toKeyID = 0
  /\ keySwitching[1].ptxtSpace # 4
  /\ GenNow(Key, <<1, 2, 0, 0>>, 4).key.keySwitching = keySwitching
  /\ GenNow(Key, <<1, 4, 0, 0>>, 4).key.keySwitching # keySwitching

\* K of the routing claim: the fromXPower of the registry matrices
\* W[s_keyId(X^n) => s_keyId(X)]
multipliers(mats, keyId) ==
  { mats[i].fromKey.powerOfX :
      i \in { j \in 1 .. Len(mats) :
                /\ mats[j].toKeyID = keyId
                /\ mats[j].fromKey.secretKeyID = keyId
                /\ mats[j].fromKey.powerOfS = 1 } }

RECURSIVE closure(_, _, _)
\* the least set that holds S and is closed under multiplication mod m by
\* the elements of K
closure(S, K, m) ==
  LET T == S \cup { (x * k) % m : x \in S, k \in K }
  IN IF T = S THEN S ELSE closure(T, K, m)

\* the subgroup of the powers mod m generated by K: it holds 1
subgroup(K, m) == closure({1}, K, m)

\* the powers that are products of one or more elements of K
products(K, m) == closure({ k % m : k \in K }, K, m)

\* the powers a routing table holds a matrix index for
marked(table) == { x \in 0 .. Len(table) - 1 : table[x + 1] # -1 }

\* the routing table of keyId right after setKeySwitchMap(keyId)
tableAfter(keyId) == setKeySwitchMap(ctx, Key, keyId).key.keySwitchMap[keyId + 1]

\* C3 as stated: after setKeySwitchMap(keyId) the table of keyId holds a
\* matrix index for exactly the powers of the subgroup G generated by K and
\* -1 for every power outside G.
C3_RoutingSubgroup ==
  \A keyId \in StoredKeys :
    LET table == tableAfter(keyId)
    IN marked(table) = subgroup(multipliers(keySwitching, keyId), ctx.m)

\* C3 amended: after setKeySwitchMap(keyId) the table of keyId holds the
\* index of a registry matrix for exactly the powers that are products of
\* one or more elements of K (the subgroup G when K is not empty, no power
\* at all when K is empty) and -1 for every other power.
C3_RoutingProducts ==
  \A keyId \in StoredKeys :
    LET table == tableAfter(keyId)
    IN /\ Len(table) = ctx.m
       /\ marked(table) = products(multipliers(keySwitching, keyId), ctx.m)
       /\ \A x \in marked(table) : table[x + 1] \in 0 .. Len(keySwitching) - 1

\* a state right after setKeySwitchMap(0) with K = {4}: the table of key 0
\* holds entries for the powers 1 and 4 and none for 2 and 3
C3_Witness ==
  /\ ret = Call("setKeySwitchMap", "ok")
  /\ multipliers(keySwitching, 0) = {4}
  /\ Len(keySwitchMap) >= 1 /\ keySwitchMap[1] = tableAfter(0)
  /\ marked(keySwitchMap[1]) = {1, 4}

\* the registry matrices with that fromKey and that toKeyID
matching(from, toIdx) ==
  { i \in 0 .. Len(keySwitching) - 1 :
      keySwitching[i + 1].fromKey = from /\ keySwitching[i + 1].toKeyID = toIdx }

\* the states reached by ImportSecKey, GenKeySWmatrix and setKeySwitchMap
\* (and by reading a key back): no recryption data was generated
NoRecryptData == recryptKeyID < 0

\* C4: in every state reached by ImportSecKey, GenKeySWmatrix and
\* setKeySwitchMap, stale tables included, getKeySWmatrix(from, toIdx)
\* returns a matrix with that fromKey and that toKeyID when the registry
\* holds one, and the dummy when it holds none.
C4_LookupExact ==
  NoRecryptData =>
    \A from \in Handles(ctx) : \A toIdx \in StoredKeys :
      LET r == getKeySWmatrix(Key, from, toIdx)
      IN /\ r.out = "ok"
         /\ IF matching(from, toIdx) # {} THEN r.val \in matching(from, toIdx)
            ELSE r.val = -1 /\ matrixAt(Key, r.val) = dummy

\* C5: for every handle with powerOfX in [0, m) and a stored key, and every
\* stored key index toIdx, getKeySWmatrix and getAnyKeySWmatrix complete
\* and return a registry matrix or the dummy; neither fails with an
\* out-of-range access.
C5_NoException ==
  NoRecryptData =>
    \A from \in Handles(ctx) :
      from.secretKeyID \in StoredKeys =>
        /\ getAnyKeySWmatrix(Key, from).out = "ok"
        /\ getAnyKeySWmatrix(Key, from).val \in -1 .. Len(keySwitching) - 1
        /\ \A toIdx \in StoredKeys :
             /\ getKeySWmatrix(Key, from, toIdx).out = "ok"
             /\ getKeySWmatrix(Key, from, toIdx).val \in -1 .. Len(keySwitching) - 1

\* C6: a key-switch matrix, a public key and a secret key in any state
\* reached by ImportSecKey, GenKeySWmatrix and setKeySwitchMap, with a table
\* never built or stale included, is equal under operator== to what is read
\* back from what was written, in the textual and in the binary format.
\* (operator== is taken in the run where it compares the strategy vectors
\* to the end.)
C6_RoundTrip ==
  NoRecryptData =>
    /\ \A i \in 1 .. Len(keySwitching) :
         /\ keySwitchEq(keySwitching[i], readMatrix(writeMatrixText(keySwitching[i])))
         /\ keySwitchEq(keySwitching[i],
                        readMatrixBinary(writeMatrixBinary(keySwitching[i])))
    /\ "true" \in pubKeyEq(Key, readPubKeyBinary(ctx, BlankKey(ctx),
                                                 writePubKeyBinary(ctx, Key)))
    /\ "true" \in secKeyEq(Key, readSecKeyBinary(ctx, BlankKey(ctx),
                                                 writeSecKeyBinary(ctx, Key)))
    /\ "true" \in pubKeyEq(Key, readPubKeyText(ctx, BlankKey(ctx),
                                               writePubKeyText(ctx, Key)))
    /\ "true" \in secKeyEq(Key, readSecKeyText(ctx, BlankKey(ctx),
                                               writeSecKeyText(ctx, Key)))

\* the degenerate requests, key indices outside the key list included:
\* <<fromSPower, fromXPower, fromIdx, toIdx>>
DegenerateRequests ==
  { req \in (-1 .. 2) \X (-1 .. 2) \X {0, 5} \X {0, 5} :
      \/ req[1] <= 0 \/ req[2] <= 0
      \/ (req[1] = 1 /\ req[2] = 1 /\ req[3] = req[4]) }

\* C9: GenKeySWmatrix with fromSPower <= 0, or fromXPower <= 0, or
\* (fromSPower = 1, fromXPower = 1, fromIdx = toIdx) returns normally, also
\* for key indices out of range, and leaves the registry, the routing
\* table, the secret keys and the zero-encryption as they were.
C9_DegenerateNoOp ==
  \A req \in DegenerateRequests :
    LET r == GenNow(Key, req, 0)
    IN /\ r.out = "ok"
       /\ r.key.keySwitching = keySwitching /\ r.key.keySwitchMap = keySwitchMap
       /\ r.key.sKeys = sKeys /\ r.key.pubEncrKey = pubEncrKey
       /\ r.key = Key

\* a state right after a GenKeySWmatrix call that returned normally on a
\* key object without any secret key: the call was a degenerate request
\* whose key indices are all out of range
C9_Witness ==
  /\ ret = Call("GenKeySWmatrix", "ok")
  /\ sKeys = <<>> /\ keySwitching = <<>>
  /\ GenNow(Key, <<1, 2, 0, 0>>, 0).out = "out_of_range"

\* C10: in every state reached by ImportSecKey, GenKeySWmatrix and
\* genRecryptData every registry matrix has exactly context.digits.size()
\* digit polynomials; only the dummy has none.
C10_DigitCount ==
  /\ \A i \in 1 .. Len(keySwitching) :
       Len(keySwitching[i].b) = Len(ctx.digits) /\ Len(keySwitching[i].b) > 0
  /\ Len(dummy.b) = 0

\* a state right after genRecryptData whose registry holds a matrix
\* ImportSecKey generated and the matrix genRecryptData generated
C10_Witness ==
  /\ ret = Call("genRecryptData", "ok") /\ recryptKeyID >= 0
  /\ \E i \in 1 .. Len(keySwitching) : keySwitching[i].fromKey.powerOfS = 2
  /\ \E i \in 1 .. Len(keySwitching) :
       keySwitching[i].toKeyID = recryptKeyID /\ keySwitching[i].fromKey.secretKeyID = 0
  /\ \A i \in 1 .. Len(keySwitching) : Len(keySwitching[i].b) = 2

(***************************************************************************)
(* Properties of encryption and decryption, stated over SpecCrypt          *)
(***************************************************************************)
\* what the parts of the last encryption add up to under the secret key,
\* over the integers: r * <skey, pkey> + p * (e0 + e1 * s) + the scaled
\* plaintext for Encrypt, p * e + the scaled plaintext for skEncrypt
roundTripTotal ==
  LET s == DCRTtoPoly(sKeys[sent.skIdx + 1])
      scaled == scaledPtxt(ctx, ctx.ctxtPrimes, sent.ptxt, sent.p)
      n == getPhiM(ctx.m)
  IN IF sent.op = "Encrypt"
       THEN LET a == ZZXMulMod(pkErr, sent.r, ctx.m)
                b == ZZXMulMod(sent.e[2], s, ctx.m)
            IN [i \in 1 .. n |-> pubEncrKey.ptxtSpace * a[i]
                                  + sent.p * (sent.e[1][i] + b[i]) + scaled[i]]
       ELSE [i \in 1 .. n |-> sent.p * sent.e[i] + scaled[i]]

\* the correctness threshold: no coefficient wraps around modulo the
\* product Q of the ciphertext primes
belowThreshold ==
  LET Q == productOfPrimes(ctx.ctxtPrimes)
      t == roundTripTotal
  IN \A i \in 1 .. Len(t) : 2 * t[i] < Q /\ 2 * t[i] > -Q

\* the last encryption succeeded and its ciphertext was decrypted
RoundTripDone ==
  /\ ret = Call("Decrypt", "ok")
  /\ sent.op \in {"Encrypt", "skEncrypt"}
  /\ sent.out = "ok"

\* C1: round trip.  Whenever Decrypt has been applied to the ciphertext that
\* Encrypt or skEncrypt produced for a plaintext with coefficients in
\* [0, p), p >= 2 the effective plaintext space, and the noise is below the
\* correctness threshold, the plaintext Decrypt returned is the plaintext
\* that was encrypted; the contexts have m = 4, a power of two, and m = 3.
C1_RoundTrip == (RoundTripDone /\ belowThreshold) => plaintxt = sent.ptxt

\* a round trip of a non-zero plaintext through Encrypt with p = 3 under
\* m = 3, which is not a power of two
C1_Witness ==
  /\ RoundTripDone /\ belowThreshold
  /\ sent.op = "Encrypt" /\ sent.p = 3 /\ ctx.m = 3
  /\ sent.ptxt = Poly2(ctx, 2, 1)
  /\ plaintxt = sent.ptxt

\* C7: every Encrypt call with a requested plaintext space that differs from
\* the one of the public encryption key works with g, the GCD of the two: if
\* g <= 1 it fails with the plaintext-space error and leaves the ciphertext
\* as it was, otherwise it returns g and the ciphertext records g.
C7_EncryptGCD ==
  [][(ret'.op = "Encrypt" /\ sent'.req # pubEncrKey.ptxtSpace) =>
       LET g == GCD(sent'.req, pubEncrKey.ptxtSpace)
       IN IF g <= 1 THEN ret'.out = "Error" /\ ctxt' = ctxt
          ELSE ret'.out = "ok" /\ sent'.p = g /\ ctxt'.ptxtSpace = g]_vars

\* Encrypt failed with the plaintext-space error on a ciphertext object that
\* held a ciphertext, which is still there
C7_Witness ==
  /\ ret = Call("Encrypt", "Error")
  /\ sent.req # pubEncrKey.ptxtSpace
  /\ GCD(sent.req, pubEncrKey.ptxtSpace) = 1
  /\ ctxt \in ReceivedCtxts(ctx, pubEncrKey.ptxtSpace)

\* C8: no call of Decrypt, GenKeySWmatrix, skEncrypt or KeySwitch::verify
\* changes a stored secret key, whatever the powers in the handles.
C8_KeysNotChanged ==
  [][ret'.op \in {"Decrypt", "GenKeySWmatrix", "skEncrypt", "verify"} =>
       sKeys' = sKeys]_vars

\* GenKeySWmatrix has made the matrix for the key squared under X -> X^(m-1)
\* and the stored keys are the imported polynomials
C8_Witness ==
  /\ ret = Call("GenKeySWmatrix", "ok")
  /\ keySwitching # <<>>
  /\ keySwitching[Len(keySwitching)].fromKey = SKHandle(2, ctx.m - 1, 0)
  /\ Len(keySwitching[Len(keySwitching)].b) = Len(ctx.digits)
  /\ \A k \in 1 .. Len(sKeys) : sKeys[k] = SecretPoly(ctx, k - 1)

(***************************************************************************)
(* Properties of key setup over the variants, stated over SpecVariants     *)
(***************************************************************************)
\* the matrices a step appended to the registry
appended == { keySwitching'[i] : i \in Len(keySwitching) + 1 .. Len(keySwitching') }

\* the plaintext space a matrix generated with the passed p has to record
recordedPtxtSpace(p) ==
  IF ctx.ckks THEN 1
  ELSE IF p >= 2 THEN p
  ELSE IF ctx.bootstrappable THEN ctx.rcPPowR
  ELSE pubEncrKey'.ptxtSpace

\* C11: a matrix generated by GenKeySWmatrix records the plaintext space 1
\* in the approximate variant whatever p is passed; in the integer variant it
\* records a passed p >= 2 as is, and for p < 2 the bootstrapping plaintext
\* space of a bootstrap-capable context and the space of the public
\* encryption key otherwise; the matrices ImportSecKey generates are
\* generated with p unspecified
C11_MatrixPtxtSpace ==
  [][ /\ ret'.op = "GenKeySWmatrix"
         => \A W \in appended : W.ptxtSpace = recordedPtxtSpace(sent'.req)
      /\ ret'.op = "ImportSecKey"
         => \A W \in appended : W.ptxtSpace = recordedPtxtSpace(0) ]_vars

\* a matrix from s^2 to s generated with p unspecified on a context that
\* is not bootstrap-capable, by a key whose plaintext space is not the
\* default of the context
C11_Witness ==
  /\ ret.op = "GenKeySWmatrix" /\ ret.out = "ok"
  /\ sent.op = "GenKeySWmatrix" /\ sent.req = 0 /\ sent.r = <<2, 1, 0, 0>>
  /\ ~ctx.ckks /\ ~ctx.bootstrappable
  /\ keySwitching # <<>>
  /\ keySwitching[Len(keySwitching)].fromKey = SKHandle(2, 1, 0)
  /\ keySwitching[Len(keySwitching)].ptxtSpace = pubEncrKey.ptxtSpace
  /\ pubEncrKey.ptxtSpace = 2 /\ ctx.pPowR = 4

\* the plaintext space the first import gives the public encryption key
importedPtxtSpace(p) ==
  IF p >= 2 THEN p ELSE IF ctx.ckks THEN 1 ELSE ctx.pPowR

\* C12: only the first import derives the public encryption key.  An
\* ImportSecKey on an empty key list sets the zero-encryption to two parts
\* with the handles (identity, base key 0) over ctxtPrimes and sets its
\* plaintext space (the passed value if >= 2, else p^r for the integer
\* variant and 1 for the approximate variant); every later import leaves the
\* parts, the noise estimate and the plaintext space unchanged
C12_FirstImportOnly ==
  [][ ret'.op = "ImportSecKey" /\ ret'.out = "ok" =>
        IF sKeys = <<>>
          THEN /\ Len(pubEncrKey'.parts) = 2
               /\ isOne(pubEncrKey'.parts[1].skHandle)
               /\ pubEncrKey'.parts[2].skHandle = SKHandle(1, 1, 0)
               /\ pubEncrKey'.parts[1].poly.ps = ctx.ctxtPrimes
               /\ pubEncrKey'.parts[2].poly.ps = ctx.ctxtPrimes
               /\ pubEncrKey'.primeSet = ctx.ctxtPrimes
               /\ pubEncrKey'.ptxtSpace = importedPtxtSpace(sent'.req)
          ELSE /\ pubEncrKey'.parts = pubEncrKey.parts
               /\ pubEncrKey'.noiseVar = pubEncrKey.noiseVar
               /\ pubEncrKey'.ptxtSpace = pubEncrKey.ptxtSpace ]_vars

\* a second key imported with a plaintext space that is not the one of
\* the public encryption key
C12_Witness ==
  /\ ret.op = "ImportSecKey" /\ ret.out = "ok"
  /\ sent.op = "ImportSecKey" /\ sent.req = 2
  /\ Len(sKeys) = 2
  /\ Len(pubEncrKey.parts) = 2
  /\ pubEncrKey.ptxtSpace = 4

(***************************************************************************)
(* Properties of RLWE and RLWE1, stated over SpecRLWE                      *)
(***************************************************************************)
\* c0 + c1*s - p*e as an integer polynomial modulo Phi_m
rlweDefect ==
  LET c0 == ctxt.parts[1].poly.c
      c1 == ctxt.parts[2].poly.c
      prod == ZZXMulMod(c1, sent.r, ctx.m)
  IN Tup([i \in 1 .. Len(c0) |-> c0[i] + prod[i] - sent.p * sent.e[i]])

\* C13: the pair (c0, c1) returned by RLWE and RLWE1 satisfies
\* c0 + c1*s = p*e modulo Q, the product of the primes of c0, for the error
\* e sampled into c0, whatever the secret key, the scale p >= 1 and the
\* first component c1; RLWE1 leaves the c1 it is passed unchanged
C13_RLWERelation ==
  ret.op \in {"RLWE1", "RLWE"} =>
    /\ \A i \in 1 .. Len(rlweDefect) :
          rlweDefect[i] % productOfPrimes(ctxt.parts[1].poly.ps) = 0
    /\ ret.op = "RLWE1" => ctxt.parts[2].poly.c = sent.ptxt

\* RLWE1 on a supplied c1 with scale 3, a secret key X - X^2 reduced and
\* an error that is not a constant, for an index that is not a power of 2
C13_Witness ==
  /\ ret.op = "RLWE1" /\ sent.p = 3 /\ ctx.m = 3
  /\ sent.e = <<-2, 1>>
  /\ sent.ptxt = <<7, 10>>
  /\ sent.r # ctxt.parts[1].poly.c
  /\ \E i \in 1 .. 2 : ctxt.parts[1].poly.c[i] # (3 * sent.e[i]) % productOfPrimes(ctxt.primeSet)

\* the variance RLWE1 returns for a width and a scale, on this index
varianceOf(w, p) ==
  RLWE1([ctx EXCEPT !.stdev = w], DCRTZero(ctx.m, ctx.ctxtPrimes),
        DCRTZero(ctx.m, ctx.ctxtPrimes), SecretPoly(ctx, 0), p, ConstPoly(ctx, 0)).var

sourceKey(W) ==
  LET Q == productOfPrimes(allPrimes(ctx))
      s == sKeys[W.fromKey.secretKeyID + 1].c
      st == IF W.fromKey.powerOfX > 1 THEN ZZXAutomorph(s, W.fromKey.powerOfX, ctx.m)
            ELSE s
  IN ZZXPower(Reduce(st, Q), W.fromKey.powerOfS, ctx.m, Q)

\* b[i] + a[i]*toKey - fromKey' * P * D_0 * ... * D_(i-1) modulo Q, in the
\* symmetric interval (i = 0, 1, ...)
gadgetDefect(W, i) ==
  LET Q == productOfPrimes(allPrimes(ctx))
      a == PRGdraw(W.prgSeed, i, ctx.m, allPrimes(ctx)).c
      at == ZZXMulMod(a, sKeys[W.toKeyID + 1].c, ctx.m)
      from == sourceKey(W)
      factor == productOfPrimes(ctx.specialPrimes)
                  * productOfPrimes(UNION { ctx.digits[j] : j \in 1 .. i })
  IN Tup([j \in 1 .. Len(at) |->
            Balanced(W.b[i + 1].c[j] + at[j] - from[j] * factor, Q)])

\* C14: every digit i of every matrix of the registry satisfies
\* b[i] + a[i]*toKey - fromKey' * P * D_0 * ... * D_(i-1) = p*e_i modulo Q,
\* with a[i] the i-th polynomial drawn from prgSeed, e_i the error drawn for
\* the digit and p the plaintext space of the matrix; on the matrices it can
\* check, KeySwitch::verify finds every digit divisible by p
C14_GadgetRelation ==
  \A k \in 1 .. Len(keySwitching) :
    LET W == keySwitching[k]
        errs == GenDraws(ctx, W.prgSeed).errs
        checked == verify(ctx, Key, W)
    IN /\ \A i \in 0 .. Len(W.b) - 1 :
            LET defect == gadgetDefect(W, i)
            IN \A j \in 1 .. getPhiM(ctx.m) :
                 defect[j] = W.ptxtSpace * errs[i + 1][j]
       /\ checked.out = "ok"
       /\ checked.val \in {0, -1}
       /\ (W.fromKey.powerOfS = 1 /\ W.fromKey.powerOfX = 1) => checked.val = 0

\* a registry that holds a matrix from s(X^(m-1)) and one from key 0 to
\* key 1 that verify can check, each with two digits, the second digit
\* with an error that is not zero
C14_Witness ==
  /\ Len(ctx.digits) = 2
  /\ Len(keySwitching) = 2
  /\ keySwitching[1].fromKey = SKHandle(1, ctx.m - 1, 0)
  /\ keySwitching[2].fromKey = SKHandle(1, 1, 0) /\ keySwitching[2].toKeyID = 1
  /\ Len(keySwitching[2].b) = 2
  /\ keySwitching[2].ptxtSpace >= 2
  /\ verify(ctx, Key, keySwitching[2]).val = 0
  /\ \E j \in 1 .. getPhiM(ctx.m) : gadgetDefect(keySwitching[2], 1)[j] # 0

(***************************************************************************)
(* Threads on one key object, stated over SpecThreads                      *)
(***************************************************************************)
\* the recorded call rec gave what the same call gives when it runs alone
\* on the key object K
sameAsAlone(K, rec) ==
  CASE rec.op = "getKeySWmatrix" ->
         LET r == getKeySWmatrix(K, SKHandle(rec.req[1], rec.req[2], rec.req[3]), rec.req[4])
         IN rec.out = r.out /\ rec.val = <<r.val>>
    [] rec.op = "getAnyKeySWmatrix" ->
         LET r == getAnyKeySWmatrix(K, SKHandle(rec.req[1], rec.req[2], rec.req[3]))
         IN rec.out = r.out /\ rec.val = <<r.val>>
    [] rec.op = "Decrypt" ->
         LET d == Decrypt(ctx, K, rec.ctxt)
         IN rec.out = d.out /\ rec.val = d.plaintxt
    [] OTHER -> TRUE

\* C16: getKeySWmatrix, getAnyKeySWmatrix, Encrypt and Decrypt write no field
\* of the key object; in every interleaving of these calls by several
\* threads after the setup the key object stays as the setup left it, and
\* every lookup and every decryption made so far returned what it returns
\* when it runs alone on that key
C16_ReadOnlyCalls ==
  [][ sent' # sent =>
        /\ keyVars' = keyVars
        /\ \A t \in Threads : sameAsAlone(Key', sent'[t]) ]_vars

\* one thread has decrypted the ciphertext it encrypted while the other
\* looked up a matrix that the registry holds
C16_Witness ==
  /\ DOMAIN sent = Threads
  /\ Len(sKeys) = 2
  /\ sent["t1"].op = "Decrypt" /\ sent["t1"].out = "ok" /\ sent["t1"].val = <<1, 1>>
  /\ sent["t2"].op = "getKeySWmatrix" /\ sent["t2"].out = "ok"
  /\ sent["t2"].val[1] >= 0
  /\ sent["t2"].ctxt.parts # <<>>

(***************************************************************************)
(* The range of decryption, stated over SpecCrypt                          *)
(***************************************************************************)
\* the accumulator of the last decryption in coefficient form, and the
\* product of the active primes of its ciphertext
decryptedF == Decrypt(ctx, Key, ctxt).f
activeQ == productOfPrimes(ctxt.primeSet)

\* C17: the polynomial Decrypt returns for a ciphertext with plaintext
\* space p >= 2 has every coefficient in [0, p-1] and is the accumulator
\* times the inverse of Q modulo p, Q the product of the active primes (the
\* inverse is 1 when p = 2 or Q is 1 modulo p); for a ciphertext with
\* plaintext space 1 it is the accumulator, neither scaled nor reduced
C17_DecryptRange ==
  ret = Call("Decrypt", "ok") =>
    IF ctxt.ptxtSpace = 1 THEN plaintxt = decryptedF
    ELSE /\ ctxt.ptxtSpace >= 2
         /\ Len(plaintxt) = getPhiM(ctx.m)
         /\ \A i \in 1 .. Len(plaintxt) :
              /\ plaintxt[i] \in 0 .. ctxt.ptxtSpace - 1
              /\ (plaintxt[i] * activeQ - decryptedF[i]) % ctxt.ptxtSpace = 0

\* a decryption with p = 4, where Q = 143 is 3 modulo p, of an accumulator
\* with a negative coefficient that is not a multiple of p
C17_Witness ==
  /\ ret = Call("Decrypt", "ok")
  /\ ctxt.ptxtSpace = 4 /\ activeQ % 4 = 3
  /\ \E i \in 1 .. Len(plaintxt) : decryptedF[i] < 0 /\ decryptedF[i] % 4 # 0
  /\ \E i \in 1 .. Len(plaintxt) : plaintxt[i] # decryptedF[i] % 4

(***************************************************************************)
(* Contract violations, stated over SpecContracts                          *)
(***************************************************************************)
\* the registry and the routing table are as before the call
registryUntouched == keySwitching' = keySwitching /\ keySwitchMap' = keySwitchMap

\* the last GenKeySWmatrix call was not degenerate and named a key that is
\* not stored
genOutsideKeys ==
  /\ ret'.op = "GenKeySWmatrix" /\ sent'.op = "GenKeySWmatrix"
  /\ sent'.r[1] > 0 /\ sent'.r[2] > 0
  /\ ~(sent'.r[1] = 1 /\ sent'.r[2] = 1 /\ sent'.r[3] = sent'.r[4])
  /\ (sent'.r[3] \notin StoredKeys \/ sent'.r[4] \notin StoredKeys)

\* C18: contract violations are fatal and leave the key unchanged.
\* setKeySwitchMap with keyId outside [0, number of keys) fails, and so does
\* a GenKeySWmatrix call that is not degenerate with fromIdx or toIdx outside
\* the stored keys; after the failure the registry and the routing table
\* are as before the call.  Encrypt and skEncrypt on a ciphertext bound to
\* another public key, and Decrypt on a ciphertext of another context, fail
\* with the ciphertext, the plaintext and the key untouched
C18_ContractViolations ==
  [][ /\ \A keyId \in {-1, Len(sKeys), Len(sKeys) + 1} :
           /\ setKeySwitchMap(ctx, Key, keyId).out = "assert"
           /\ setKeySwitchMap(ctx, Key, keyId).key = Key
      /\ (ret'.op = "setKeySwitchMap" /\ ret'.out # "ok")
           => ret'.out = "assert" /\ registryUntouched
      /\ genOutsideKeys
           => ret'.out = "out_of_range" /\ registryUntouched /\ sKeys' = sKeys
      /\ (ret'.op \in {"Encrypt", "skEncrypt"} /\ ctxt'.pubKey # 0)
           => /\ ret'.out = "assert"
              /\ ctxt' = ForeignCtxt(ctx, pubEncrKey.ptxtSpace)
              /\ keyVars' = keyVars
      /\ (ret'.op = "Decrypt" /\ ctxt'.context # 0)
           => ret'.out = "assert" /\ plaintxt' = <<>> /\ keyVars' = keyVars ]_vars

\* GenKeySWmatrix was asked for a matrix to a key that is not stored, on a
\* key object with matrices and a routing table, by a caller whose
\* ciphertext of another key was refused before
C18_Witness ==
  /\ ret = Call("GenKeySWmatrix", "out_of_range")
  /\ sent.op = "GenKeySWmatrix" /\ sent.r = <<1, ctx.m - 1, 0, MaxKeys>>
  /\ Len(sKeys) >= 1 /\ MaxKeys \notin StoredKeys
  /\ keySwitching # <<>> /\ keySwitchMap # <<>>
  /\ ctxt.pubKey # 0 /\ ctxt.context # 0

(***************************************************************************)
(* Generation and the routing table, stated over SpecVariants              *)
(***************************************************************************)
\* the index of the matrix a step appended, and the matrix
newIndex == Len(keySwitching)
newMatrix == keySwitching'[Len(keySwitching')]

\* no table holds the index idx
notRouted(map, idx) ==
  \A k \in 1 .. Len(map) : \A t \in 1 .. Len(map[k]) : map[k][t] # idx

\* C19: a GenKeySWmatrix call that appends a matrix adds one matrix at the
\* end of the registry, leaves every earlier matrix at its index and every
\* other field of the key, the routing table of every key included, as it
\* was; no table points to the new matrix, and the table of toIdx does after
\* a later setKeySwitchMap(toIdx) when the matrix is from a power s(X^t) of
\* the key toIdx
C19_GenKeepsRouting ==
  [][ (ret'.op = "GenKeySWmatrix" /\ keySwitching' # keySwitching) =>
        /\ Len(keySwitching') = Len(keySwitching) + 1
        /\ SubSeq(keySwitching', 1, Len(keySwitching)) = keySwitching
        /\ keySwitchMap' = keySwitchMap
        /\ notRouted(keySwitchMap', newIndex)
        /\ <<sKeys', skSizes', pubEncrKey', KS_strategy', recryptKeyID', recryptEkey'>>
             = <<sKeys, skSizes, pubEncrKey, KS_strategy, recryptKeyID, recryptEkey>>
        /\ (newMatrix.fromKey.powerOfS = 1
               /\ newMatrix.fromKey.secretKeyID = newMatrix.toKeyID)
            => setKeySwitchMap(ctx, Key', newMatrix.toKeyID)
                 .key.keySwitchMap[newMatrix.toKeyID + 1][newMatrix.fromKey.powerOfX + 1]
               = newIndex ]_vars

\* GenKeySWmatrix has appended a matrix from s(X^(m-1)) of key 0 to a
\* registry that held a matrix, after the table of key 0 was built: the
\* table has no entry for the power m-1
C19_Witness ==
  /\ ret = Call("GenKeySWmatrix", "ok")
  /\ sent.op = "GenKeySWmatrix" /\ sent.r = <<1, ctx.m - 1, 0, 0>>
  /\ Len(keySwitching) = 2
  /\ keySwitching[2].fromKey = SKHandle(1, ctx.m - 1, 0)
  /\ Len(keySwitchMap) >= 1 /\ Len(keySwitchMap[1]) = ctx.m
  /\ keySwitchMap[1][ctx.m] = -1

(***************************************************************************)
(* Minimum-hop routing, stated over Spec                                   *)
(***************************************************************************)
RECURSIVE minHops(_, _, _, _, _)
\* the least number n >= 1 of multipliers from K whose product is t mod m,
\* L the products of n multipliers; 0 when there is none up to m
minHops(t, L, K, m, n) ==
  IF t \in L THEN n
  ELSE IF n >= m THEN 0
  ELSE minHops(t, { (x * k) % m : x \in L, k \in K }, K, m, n + 1)

RECURSIVE hopsAlong(_, _, _, _)
\* the number of steps from t back to 1 along the recorded entries: the
\* entry of t names a matrix with multiplier k, and the step leads to the
\* power t' with t = t' * k mod m; -1 when the entries do not lead to 1
\* within n steps
hopsAlong(table, t, m, n) ==
  IF n = 0 \/ table[t + 1] < 0 \/ table[t + 1] >= Len(keySwitching) THEN -1
  ELSE LET k == keySwitching[table[t + 1] + 1].fromKey.powerOfX
           before == { x \in 0 .. m - 1 : (x * k) % m = t }
       IN IF 1 \in before THEN 1
          ELSE IF before = {} THEN -1
          ELSE LET rest == hopsAlong(table, CHOOSE x \in before : TRUE, m, n - 1)
               IN IF rest < 0 THEN -1 ELSE rest + 1

\* C20: after setKeySwitchMap(keyId), for every power t with a table entry
\* i, the matrix i has a multiplier k = fromKey.powerOfX with t = t' * k mod m
\* for a power t' that is 1 or has an entry of its own, and the number of
\* steps from 1 to t along the recorded entries is the least number of
\* multipliers from K (one or more) whose product is t mod m
C20_MinimumHops ==
  \A keyId \in StoredKeys :
    LET table == tableAfter(keyId)
        K == multipliers(keySwitching, keyId)
    IN \A t \in marked(table) :
         LET k == keySwitching[table[t + 1] + 1].fromKey.powerOfX
         IN /\ \E x \in {1} \cup marked(table) : t = (x * k) % ctx.m
            /\ hopsAlong(table, t, ctx.m, ctx.m) >= 1
            /\ hopsAlong(table, t, ctx.m, ctx.m)
                 = minHops(t, { k1 % ctx.m : k1 \in K }, K, ctx.m, 1)

\* the table of key 0 was built over K = {2, 4} with m = 5: the power 3 is
\* two steps from 1 (over 4, then 2 or 4), not three steps of the
\* multiplier 2, and the power 1 has an entry two steps from 1
C20_Witness ==
  /\ ret = Call("setKeySwitchMap", "ok")
  /\ ctx.m = 5
  /\ multipliers(keySwitching, 0) = {2, 4}
  /\ Len(keySwitchMap) >= 1 /\ keySwitchMap[1] = tableAfter(0)
  /\ marked(keySwitchMap[1]) = {1, 2, 3, 4}
  /\ hopsAlong(keySwitchMap[1], 3, 5, 5) = 2
  /\ hopsAlong(keySwitchMap[1], 1, 5, 5) = 2
  /\ hopsAlong(keySwitchMap[1], 2, 5, 5) = 1

(***************************************************************************)
(* Tie-break of the search, stated over SpecBFS                            *)
(***************************************************************************)
\* the table the running call fills
bfsTable == keySwitchMap[sent.keyId + 1]

\* the search of the running call is over: the queue is empty
bfsDone == sent.op = "setKeySwitchMap" /\ sent.queue = <<>>

\* the edges of the running call, by their position in registry order
bfsEdgeSet == { sent.edges[j] : j \in 1 .. Len(sent.edges) }

\* the number of multipliers on a shortest way from the seed 1 to x, as
\* the predecessor of another power: none for the seed itself
hopsTo(x) ==
  IF x = 1 THEN 0
  ELSE minHops(x, { e[1] % ctx.m : e \in bfsEdgeSet }, { e[1] : e \in bfsEdgeSet }, ctx.m, 1)

\* the indices of the matrices that reach t with the minimum hop count
shortestInto(t) ==
  { e[2] : e \in { d \in bfsEdgeSet :
                     \E x \in {1} \cup marked(bfsTable) :
                        /\ MulMod(x, d[1], ctx.m) = t
                        /\ hopsTo(x) + 1
                             = minHops(t, { e[1] % ctx.m : e \in bfsEdgeSet },
                                       { e[1] : e \in bfsEdgeSet }, ctx.m, 1) } }

\* the position at which x was first queued
firstPushed(x) ==
  CHOOSE i \in 1 .. Len(sent.pushed) :
    sent.pushed[i] = x /\ \A k \in 1 .. i - 1 : sent.pushed[k] # x

\* the ways into t in the order the search tries them: <<position of the
\* predecessor in the queue, position of the edge, matrix index>>
waysInto(t) ==
  { <<firstPushed(sent.pushed[i]), j, sent.edges[j][2]>> :
      <<i, j>> \in { q \in (1 .. Len(sent.pushed)) \X (1 .. Len(sent.edges)) :
                       MulMod(sent.pushed[q[1]], sent.edges[q[2]][1], ctx.m) = t } }

firstWay(t) ==
  CHOOSE w \in waysInto(t) :
    \A v \in waysInto(t) : w[1] < v[1] \/ (w[1] = v[1] /\ w[2] <= v[2])

\* C21 as stated: when the search is over, the entry of every recorded
\* power t is the smallest registry index among the matrices that reach t
\* with the minimum hop count
C21_SmallestIndexWins ==
  bfsDone =>
    \A t \in marked(bfsTable) :
      \A idx \in shortestInto(t) : bfsTable[t + 1] <= idx

\* C21, amended: the entry recorded for t is the one the search finds
\* first, taking the powers in the order they were queued and the edges of
\* each power in registry order; and an edge found later for a power
\* already recorded never overwrites its entry
C21_FirstFoundWins ==
  /\ [](bfsDone =>
          \A t \in marked(bfsTable) :
             /\ bfsTable[t + 1] \in shortestInto(t)
             /\ bfsTable[t + 1] = firstWay(t)[3])
  /\ [][sent.op = "setKeySwitchMap" /\ sent'.op = "setKeySwitchMap" =>
          \A t \in 0 .. ctx.m - 1 :
             bfsTable[t + 1] # -1 => keySwitchMap'[sent.keyId + 1][t + 1] = bfsTable[t + 1]]_vars

\* m = 5, the matrices of X^2 and X^4 at the indices 0 and 1: the power 3
\* is two hops from 1 over either, 2 then 4 or 4 then 2; the power 2 was
\* queued before the power 4, so the entry of 3 is the index 1
C21_Witness ==
  /\ bfsDone
  /\ ctx.m = 5
  /\ sent.edges = <<<<2, 0>>, <<4, 1>>>>
  /\ shortestInto(3) = {0, 1}
  /\ bfsTable[3 + 1] = 1
  /\ sent.pushed = <<1, 2, 4, 3, 1>>

(***************************************************************************)
(* Rebuild, not patch, stated over Spec                                    *)
(***************************************************************************)
\* the table setKeySwitchMap(keyId) builds on a key with the registry mats
\* that never had a table
freshTable(mats, keyId) ==
  setKeySwitchMap(ctx, [Key EXCEPT !.keySwitching = mats, !.keySwitchMap = <<>>],
                  keyId).key.keySwitchMap[keyId + 1]

\* C22: the table setKeySwitchMap(keyId) produces is the one it builds on
\* a key with the same registry that never had a table, whatever the table
\* held before, the other tables are left alone, and a second rebuild with
\* the registry unchanged gives the same table
C22_RebuildNotPatch ==
  [][ret'.op = "setKeySwitchMap" /\ ret'.out = "ok" =>
       \E keyId \in 0 .. Len(skSizes) - 1 :
          /\ Len(keySwitchMap') > keyId
          /\ keySwitchMap'[keyId + 1] = freshTable(keySwitching, keyId)
          /\ \A i \in 1 .. Len(keySwitchMap') :
                i # keyId + 1 =>
                  keySwitchMap'[i] = IF i <= Len(keySwitchMap) THEN keySwitchMap[i] ELSE <<>>
          /\ keySwitching' = keySwitching
          /\ setKeySwitchMap(ctx, [Key EXCEPT !.keySwitchMap = keySwitchMap'],
                             keyId).key.keySwitchMap = keySwitchMap']_vars

\* m = 5: the table of key 0 was rebuilt after the matrix of X^4 (index 1)
\* was appended to a registry that held the matrix of X^2 (index 0); over
\* the registry before the append the power 3 has the entry 0, three hops
\* from 1, and the rebuilt table holds the entry 1 for it, two hops from 1
C22_Witness ==
  /\ ret = Call("setKeySwitchMap", "ok")
  /\ Len(keySwitching) = 2 /\ Len(keySwitchMap) >= 1
  /\ keySwitchingEdges(keySwitching, 0, 0) = <<<<2, 0>>, <<4, 1>>>>
  /\ freshTable(SubSeq(keySwitching, 1, 1), 0)[3 + 1] = 0
  /\ keySwitchMap[1] = freshTable(keySwitching, 0)
  /\ keySwitchMap[1][3 + 1] = 1

(***************************************************************************)
(* Bootstrapping key generation, stated over Spec                          *)
(***************************************************************************)
\* the matrix genRecryptData asks for: from key 0 to the new key keyID, at
\* the plaintext modulus p^r it passes
recryptMatrixOf(mat, keyID) ==
  /\ mat.fromKey = SKHandle(1, 1, 0)
  /\ mat.toKeyID = keyID
  /\ mat.ptxtSpace = ctx.pPowR

\* C23: on a bootstrap-capable context with key 0 imported, the first
\* genRecryptData imports exactly one key with the configured Hamming
\* weight, appends exactly one matrix from (key 0, s, X) to the new key,
\* stores in recryptEkey a ciphertext whose plaintext modulus is the
\* extended modulus, and records the new key's index; a second call
\* changes nothing and returns that index
C23_RecryptData ==
  [][ret'.op = "genRecryptData" /\ ret'.out = "ok" /\ ctx.bootstrappable /\ sKeys # <<>> =>
       IF recryptKeyID >= 0
         THEN /\ UNCHANGED keyVars
              /\ genRecryptData(ctx, Key, RecryptDraws(ctx, NextSeed, Len(sKeys))).val
                   = recryptKeyID
         ELSE /\ Len(sKeys') = Len(sKeys) + 1
              /\ skSizes' = Append(skSizes, ctx.rcSkHwt)
              /\ Len(keySwitching') = Len(keySwitching) + 1
              /\ SubSeq(keySwitching', 1, Len(keySwitching)) = keySwitching
              /\ recryptMatrixOf(keySwitching'[Len(keySwitching')], Len(sKeys))
              /\ recryptEkey'.parts # <<>>
              /\ recryptEkey'.ptxtSpace = ctx.rcPPowR
              /\ recryptKeyID' = Len(sKeys)]_vars

(***************************************************************************)
(* Seed determinism, stated over SpecSeed                                  *)
(***************************************************************************)
\* the n draws that follow SetSeed(seed)
drawsOf(seed, n) ==
  Tup([i \in 1 .. n |-> PRGdraw(seed, i - 1, ctx.m, allPrimes(ctx))])

\* C24: the a[i] GenKeySWmatrix uses are the n draws that follow
\* SetSeed(prgSeed) of the seed it stores, verify regenerates the same a[i]
\* from the stored seed (they satisfy the relation with the stored digits),
\* and the caller's generator ends where its own draws left it: after
\* GenKeySWmatrix past RandomBits and the n error samples, after verify
\* where it was
C24_SeedDeterminism ==
  [][
     /\ (ret'.op = "GenKeySWmatrix" /\ Len(keySwitching') > Len(keySwitching)) =>
          (LET mat == keySwitching'[Len(keySwitching')]
           IN /\ mat.prgSeed = sent'.seed
              /\ sent'.a = drawsOf(mat.prgSeed, Len(mat.b))
              /\ sent'.rng = drawn(sent.rng, 1 + Len(mat.b)))
     /\ (ret'.op = "verify" /\ ret'.out = "ok" /\ sent'.val >= 0) =>
          (/\ \E i \in 1 .. Len(keySwitching) :
                 /\ keySwitching[i].prgSeed = sent'.seed
                 /\ sent'.a = drawsOf(keySwitching[i].prgSeed, Len(keySwitching[i].b))
           /\ sent'.val = 0
           /\ sent'.rng = sent.rng)
    ]_vars

\* verify has regenerated the two a[i] of a matrix from its seed, the
\* relation holds for both digits, and the caller's generator is on its
\* own seed, past the draws of the import and of the generation
C24_Witness ==
  /\ ret = Call("verify", "ok")
  /\ Len(sent.a) = 2 /\ sent.val = 0
  /\ \E i \in 1 .. Len(keySwitching) : keySwitching[i].prgSeed = sent.seed
  /\ sent.rng.seed \in {1, 2}
  /\ sent.rng.seed # sent.seed
  /\ sent.rng.count >= 5

(***************************************************************************)
(* Strategy comparison, stated over SpecEq                                 *)
(***************************************************************************)
RECURSIVE significant(_)
\* a strategy vector without its trailing FHE_KSS_UNKNOWN entries
significant(v) ==
  IF v = <<>> THEN v
  ELSE IF v[Len(v)] = FHE_KSS_UNKNOWN THEN significant(SubSeq(v, 1, Len(v) - 1))
  ELSE v

\* the two objects of the last comparison
lhs == sent[sent.x]
rhs == sent[sent.y]

\* C25: when two distinct keys agree on every other compared field and
\* their strategy vectors differ only by trailing FHE_KSS_UNKNOWN entries,
\* operator== returns true, and the trimming loops read the vectors only
\* at indices in [0, length)
C25_StrategyComparison ==
  (sent.op = "operator==" /\ sent.x # sent.y /\ comparesStrategies(lhs, rhs)) =>
     /\ \A i \in strategyReads(lhs.KS_strategy, Len(lhs.KS_strategy)) :
           0 <= i /\ i < Len(lhs.KS_strategy)
     /\ \A i \in strategyReads(rhs.KS_strategy, Len(rhs.KS_strategy)) :
           0 <= i /\ i < Len(rhs.KS_strategy)
     /\ (/\ significant(lhs.KS_strategy) = significant(rhs.KS_strategy)
         /\ lhs.recryptKeyID = rhs.recryptKeyID
         /\ (lhs.recryptKeyID >= 0 => ctxtEqualsTo(lhs.recryptEkey, rhs.recryptEkey)))
        => ret.out = "true"

(***************************************************************************)
(* operator== as an equivalence, stated over SpecEq                        *)
(***************************************************************************)
\* the outcomes of x == y for the objects named x and y
outcomes(x, y) == IF x = y THEN {"true"} ELSE pubKeyEq(sent[x], sent[y])

\* C27: on the key objects of one context operator== is reflexive,
\* symmetric and transitive: x == x, x == y exactly when y == x, and
\* x == y and y == z give x == z, also when the registry of y has another
\* length than those of x and z
C27_Equivalence ==
  sent.op = "operator==" =>
    \A x \in {"A", "B", "C"}, y \in {"A", "B", "C"}, z \in {"A", "B", "C"} :
       /\ outcomes(x, x) = {"true"}
       /\ outcomes(x, y) = outcomes(y, x)
       /\ (outcomes(x, y) = {"true"} /\ outcomes(y, z) = {"true"})
            => outcomes(x, z) = {"true"}

(***************************************************************************)
(* Index assignment of ImportSecKey, stated over SpecImport                *)
(***************************************************************************)
\* the key thread t imports
keyOf(t) == SecretPoly(ctx, IF t = "t1" THEN 0 ELSE 1)

\* C26: a call of ImportSecKey that ran with no other call under way
\* returns the number of keys stored before it, which is the index of the
\* key it appended, and its matrices s^e -> s are those of that key; a
\* call that interleaves with another returns an index of the list, which
\* need not be the index of its own key
C26_ImportIndex ==
  \A t \in Threads :
    (sent[t].op = "ImportSecKey" /\ sent[t].out = "ok") =>
       /\ sent[t].val[1] \in 0 .. Len(sKeys) - 1
       /\ sent[t].alone =>
            /\ sent[t].val[1] = sent[t].start
            /\ sKeys[sent[t].val[1] + 1] = keyOf(t)
            /\ sent[t].req[2] >= 2 =>
                 \E i \in 1 .. Len(keySwitching) :
                    /\ keySwitching[i].fromKey = SKHandle(2, 1, sent[t].start)
                    /\ keySwitching[i].toKeyID = sent[t].start

\* both threads appended their keys before either read its index: both
\* calls returned the index 1, the key of one of them is stored at index
\* 0, and the only matrix s^2 -> s generated is that of key 1
C26_Witness ==
  /\ \A t \in Threads : sent[t].op = "ImportSecKey" /\ sent[t].out = "ok"
                         /\ sent[t].req[2] = 2 /\ ~sent[t].alone
  /\ sent["t1"].val = <<1>> /\ sent["t2"].val = <<1>>
  /\ Len(sKeys) = 2
  /\ \E t \in Threads : sKeys[1] = keyOf(t)
  /\ Len(keySwitching) = 1
  /\ keySwitching[1].fromKey = SKHandle(2, 1, 1) /\ keySwitching[1].toKeyID = 1

(***************************************************************************)
(* Registry uniqueness, stated over Spec                                   *)
(***************************************************************************)
\* the index the routing table of toIdx gives for the handle h, when the
\* lookup takes that path and finds a matrix there; -1 otherwise
viaTable(h, toIdx) ==
  IF h.powerOfS = 1 /\ h.secretKeyID = toIdx /\ toIdx < Len(keySwitchMap)
    THEN LET r == routingLookup(Key, h, toIdx)
         IN IF r.out = "ok" /\ r.val >= 0 THEN r.val ELSE -1
    ELSE -1

\* C28: the registry holds at most one matrix for each pair (fromKey,
\* toKeyID), every matrix has positive powers of s and of X, none switches
\* (key k, s, X) to key k, and a matrix the routing table names for a
\* request is the one the linear scan finds for it
C28_RegistryUnique ==
  /\ \A i \in 1 .. Len(keySwitching), j \in 1 .. Len(keySwitching) :
        (/\ keySwitching[i].fromKey = keySwitching[j].fromKey
         /\ keySwitching[i].toKeyID = keySwitching[j].toKeyID) => i = j
  /\ \A i \in 1 .. Len(keySwitching) :
        /\ keySwitching[i].fromKey.powerOfS > 0
        /\ keySwitching[i].fromKey.powerOfX > 0
        /\ ~(/\ keySwitching[i].fromKey.powerOfS = 1
             /\ keySwitching[i].fromKey.powerOfX = 1
             /\ keySwitching[i].fromKey.secretKeyID = keySwitching[i].toKeyID)
  /\ \A h \in Handles(ctx), toIdx \in 0 .. MaxKeys - 1 :
        viaTable(h, toIdx) >= 0 =>
          viaTable(h, toIdx) = linearSearch(keySwitching, h, toIdx, FALSE, 0)

\* GenKeySWmatrix was asked again for a matrix the registry holds: the
\* registry has two matrices, of different handles, and the table of key
\* 0 names the one of X^2, which is the one the scan finds
C28_Witness ==
  /\ ret = Call("GenKeySWmatrix", "ok")
  /\ Len(keySwitching) = 2
  /\ keySwitching[1].fromKey # keySwitching[2].fromKey
  /\ viaTable(SKHandle(1, 2, 0), 0) >= 0
  /\ viaTable(SKHandle(1, 2, 0), 0) = linearSearch(keySwitching, SKHandle(1, 2, 0), 0, FALSE, 0)

(***************************************************************************)
(* Routing-table well-formedness, stated over Spec                         *)
(***************************************************************************)
\* the keys whose table setKeySwitchMap has filled: resize leaves the
\* tables of the keys below keyId empty
builtTables == { k \in 0 .. Len(keySwitchMap) - 1 : Len(keySwitchMap[k + 1]) > 0 }

\* C29: every table that has been built has exactly m entries, and every
\* entry other than -1 is the index of a registry matrix that switches
\* key keyId, to the first power of s, to key keyId
C29_TablesWellFormed ==
  \A k \in builtTables :
    /\ Len(keySwitchMap[k + 1]) = ctx.m
    /\ \A x \in marked(keySwitchMap[k + 1]) :
          LET idx == keySwitchMap[k + 1][x + 1]
          IN /\ idx >= 0
             /\ idx < Len(keySwitching)
             /\ keySwitching[idx + 1].toKeyID = k
             /\ keySwitching[idx + 1].fromKey.secretKeyID = k
             /\ keySwitching[idx + 1].fromKey.powerOfS = 1

\* a matrix was appended after the table of key 0 was built: the table
\* names a matrix for some power and has no entry for the power of the
\* matrix appended last
C29_Witness ==
  /\ ret = Call("GenKeySWmatrix", "ok")
  /\ 0 \in builtTables
  /\ marked(keySwitchMap[1]) # {}
  /\ Len(keySwitching) >= 2
  /\ LET last == keySwitching[Len(keySwitching)]
     IN /\ last.toKeyID = 0
        /\ last.fromKey.secretKeyID = 0
        /\ last.fromKey.powerOfS = 1
        /\ last.fromKey.powerOfX < ctx.m
        /\ last.fromKey.powerOfX \notin marked(keySwitchMap[1])

(***************************************************************************)
(* Termination of the search, stated over SpecBFSFair                      *)
(***************************************************************************)
\* how many times the running call has put the power x on the queue
timesPushed(x) == Cardinality({ i \in 1 .. Len(sent.pushed) : sent.pushed[i] = x })

\* C30: the search of setKeySwitchMap ends: a power is put on the queue
\* only in the step that changes its table entry from -1 to a matrix
\* index, each power is put on the queue at most once (the power 1 at most
\* twice, with the seed), and the queue of a running call becomes empty
C30_BFSTerminates ==
  /\ [][ (sent.op = "setKeySwitchMap" /\ sent'.op = "setKeySwitchMap"
            /\ Len(sent'.pushed) > Len(sent.pushed)) =>
          (LET x == sent'.pushed[Len(sent'.pushed)]
           IN /\ Len(sent'.pushed) = Len(sent.pushed) + 1
              /\ sent'.queue = Append(sent.queue, x)
              /\ keySwitchMap[sent.keyId + 1][x + 1] = -1
              /\ keySwitchMap'[sent.keyId + 1][x + 1] >= 0
              /\ keySwitchMap'[sent.keyId + 1][x + 1] < Len(keySwitching)) ]_vars
  /\ [](sent.op = "setKeySwitchMap" =>
          \A x \in 0 .. ctx.m - 1 :
            timesPushed(x) <= (IF x = 1 THEN 2 ELSE 1))
  /\ ((sent.op = "setKeySwitchMap") ~> (sent.op = "setKeySwitchMap" /\ sent.queue = <<>>))
  /\ ((sent.op = "setKeySwitchMap") ~> (sent = BFSIdle))

\* the search is over with the power 1 found again: the seed and four
\* more powers were put on the queue, the power 1 twice
C30_Witness ==
  /\ sent.op = "setKeySwitchMap"
  /\ sent.queue = <<>>
  /\ Len(sent.pushed) >= 5
  /\ timesPushed(1) = 2

==========================================================================
